---- MODULE Spec2Model ----
(***************************************************************************)
(* BioFlow (examples/bioflow-python): the pairwise alignment engine        *)
(* (bioflow/alignment.py) and the k-mer counter (bioflow/kmer.py) as state *)
(* machines.  A Python string is a sequence of one-character strings.      *)
(***************************************************************************)
EXTENDS Integers, Sequences, FiniteSets, TLC

VARIABLES
    seq1, seq2,          \* the two Sequence arguments (their bases)
    scoring,             \* the ScoringMatrix argument
    pc,                  \* which function body is running, and where
    H,                   \* score matrix (smith_waterman / needleman_wunsch)
    traceback,           \* direction matrix
    i, j,                \* loop indices of the running body
    max_score,           \* running maximum (smith_waterman, alignment_score_only)
    max_i, max_j,        \* cell of the running maximum (smith_waterman)
    aligned1, aligned2,  \* rows built by the traceback
    prev_row, curr_row,  \* the two rows of alignment_score_only
    swResult,            \* what smith_waterman returned, or NoResult
    nwResult,            \* what needleman_wunsch returned, or NoResult
    soResult,            \* what alignment_score_only returned, or NoResult
    counters,            \* the KMerCounter objects: k, counts, total_kmers
    lastCall,            \* the last method call: its name and whether it raised
    kmerObj,             \* a KMer object (its sequence), or NoResult
    seqObj,              \* a Sequence object, or what raised instead of one
    distance,            \* what kmer_distance returned, or NoResult
    targets,             \* the targets argument of find_best_alignment
    alignments,          \* the list align_against_multiple builds
    bestResult,          \* what find_best_alignment returned, or NoResult
    alignObj,            \* the Alignment a method is called on, or NoResult
    cigar                \* what to_cigar returned, or NoResult

alignVars == <<seq1, seq2, scoring, pc, H, traceback, i, j, max_score, max_i,
               max_j, aligned1, aligned2, prev_row, curr_row, swResult,
               nwResult, soResult>>
kmerVars == <<counters, lastCall>>
cigarVars == <<alignObj, cigar>>
objVars == <<kmerObj, seqObj, distance, targets, alignments, bestResult,
             cigarVars>>
vars == <<alignVars, kmerVars, objVars>>

----------------------------------------------------------------------------
(* Bounds of the model *)

\* longest sequence handed to the alignment functions
MaxLen == 3

\* symbols the alignment inputs are drawn from (a subset of VALID_DNA_BASES)
AlignBases == {"A", "C"}

\* longest string handed to the KMerCounter methods
MaxStrLen == 3

\* cap on the k-mers counted over all counters together
MaxTotal == 2

\* characters of the strings handed to count_kmers: a base, and a lower-case
\* n that upper() turns into the ambiguity symbol
KmerChars == {"A", "n"}

\* the character U+00DF (LATIN SMALL LETTER SHARP S), one character whose
\* str.upper() is the two characters "SS"
SharpS == "sz"

\* characters of the k-mers handed to add: a lower-case base and the sharp s
AddChars == {"a", SharpS}

\* symbols of the Sequence objects handed to count_from_sequence
KmerBases == {"A", "C", "N"}

\* the widths the counters are created with
KValues == {1, 2}

\* the counts handed to add
AddCounts == {0, 1, 2}

\* longest list of targets handed to find_best_alignment
MaxTargets == 3

\* characters of the texts handed to the Sequence factories: the bases, a
\* lower-case base, a letter of neither alphabet and the sharp s
TextChars == {"a", "C", "G", "T", "U", "N", "x", SharpS}

SeqsUpTo(S, n) == UNION {[1..len -> S] : len \in 1..n}

AlignSeqs == SeqsUpTo(AlignBases, MaxLen)

----------------------------------------------------------------------------
(* Small helpers *)

\* Python's max() over a non-empty collection of integers
SetMax(S) == CHOOSE x \in S : \A y \in S : y <= x

RECURSIVE Degap(_)
\* a row with its gap symbols removed
Degap(row) ==
    IF row = <<>> THEN <<>>
    ELSE IF Head(row) = "-" THEN Degap(Tail(row))
    ELSE <<Head(row)>> \o Degap(Tail(row))

\* Python slice s[a:b] for 0 <= a <= b <= len(s)
Slice(s, a, b) == [x \in 1..(b - a) |-> s[a + x]]

\* a result slot: nothing returned yet, or the returned value
NoResult == [none |-> TRUE]
Returned(v) == [value |-> v]

----------------------------------------------------------------------------
(* ScoringMatrix *)

ScoringRec(m, x, go, ge) ==
    [match_score |-> m, mismatch_penalty |-> x,
     gap_open_penalty |-> go, gap_extend_penalty |-> ge]

default_dna == ScoringRec(2, -1, -2, -1)

blast_like == ScoringRec(1, -3, -5, -2)

simple(match, mismatch, gap) == ScoringRec(match, mismatch, gap, gap)

ScoringValid(s) ==
    /\ ~(s.match_score <= 0)
    /\ ~(s.mismatch_penalty > 0)
    /\ ~(s.gap_open_penalty > 0)
    /\ ~(s.gap_extend_penalty > 0)

\* the scorings the alignment functions are called with
Scorings == {default_dna, blast_like, simple(1, 0, 0), simple(2, -3, -1)}

score(s, base1, base2) ==
    IF base1 = base2 THEN s.match_score ELSE s.mismatch_penalty

\* gap_penalty returning the penalty of extending a gap
gap_penalty_Extend(s) == s.gap_extend_penalty

gap_penalty(s) == s.gap_open_penalty

----------------------------------------------------------------------------
(* Alignment *)

\* match_count(): columns with equal symbols that are not gaps
match_count(a1, a2) ==
    Cardinality({c \in 1..Len(a1) : a1[c] = a2[c] /\ a1[c] # "-"})

\* mismatch_count that leaves out the two gap tests
mismatch_count_CountsGaps(a1, a2) ==
    Cardinality({c \in 1..Len(a1) : a1[c] # a2[c]})

\* mismatch_count(): columns with two different symbols, neither a gap
mismatch_count(a1, a2) ==
    Cardinality({c \in 1..Len(a1) : a1[c] # a2[c] /\ a1[c] # "-" /\ a2[c] # "-"})

\* str.count('-')
CountGaps(row) == Cardinality({c \in 1..Len(row) : row[c] = "-"})

gaps_seq1(a1, a2) == CountGaps(a1)

gaps_seq2(a1, a2) == CountGaps(a2)

total_gaps(a1, a2) == gaps_seq1(a1, a2) + gaps_seq2(a1, a2)

alignment_length(a1, a2) == Len(a1)

\* _calculate_identity(): matches / length as the pair <<numerator, denominator>>
\* of the float quotient; 0.0 for the empty alignment
calculate_identity(a1, a2) ==
    IF Len(a1) = 0 THEN <<0, 1>> ELSE <<match_count(a1, a2), Len(a1)>>

\* Alignment.__post_init__ accepts the rows
AlignmentAccepted(a1, a2) == Len(a1) = Len(a2)

AlignmentRec(a1, a2, sc, s1, e1, s2, e2, ty) ==
    [aligned_seq1 |-> a1, aligned_seq2 |-> a2, score |-> sc,
     start1 |-> s1, end1 |-> e1, start2 |-> s2, end2 |-> e2,
     alignment_type |-> ty, identity |-> calculate_identity(a1, a2)]

with_positions(a1, a2, sc, s1, e1, s2, e2, ty) ==
    AlignmentRec(a1, a2, sc, s1, e1, s2, e2, ty)

AlignmentNew(a1, a2, sc, ty) ==
    AlignmentRec(a1, a2, sc, 0, Len(a1), 0, Len(a2), ty)

----------------------------------------------------------------------------
(* Locals of a function body that is not running *)

NoMatrix == <<>>

LocalsCleared ==
    /\ H' = NoMatrix
    /\ traceback' = NoMatrix
    /\ i' = 0
    /\ j' = 0
    /\ max_score' = 0
    /\ max_i' = 0
    /\ max_j' = 0
    /\ aligned1' = <<>>
    /\ aligned2' = <<>>
    /\ prev_row' = <<>>
    /\ curr_row' = <<>>

m == Len(seq1)
n == Len(seq2)

ZeroMatrix == [r \in 0..m |-> [c \in 0..n |-> 0]]
StopMatrix == [r \in 0..m |-> [c \in 0..n |-> "STOP"]]

\* the loop "for i in 1..m: for j in 1..n" moves on from cell (i, j)
NextCell == IF j < n THEN <<i, j + 1>> ELSE <<i + 1, 1>>
LastCell == i = m /\ j = n

----------------------------------------------------------------------------
(* smith_waterman *)

\* SWBest without the zero floor: the maximum starts from diag, as in the
\* global fill
SWBest_NoFloor(diag, up, left) ==
    LET b1 == <<diag, "DIAGONAL">>
        b2 == IF up > b1[1] THEN <<up, "UP">> ELSE b1
        b3 == IF left > b2[1] THEN <<left, "LEFT">> ELSE b2
    IN  b3

\* SWBest where diag replaces the zero floor when it only equals it, so that a
\* cell of value 0 records DIAGONAL
SWBest_FloorLast(diag, up, left) ==
    LET b0 == <<0, "STOP">>
        b1 == IF diag >= b0[1] THEN <<diag, "DIAGONAL">> ELSE b0
        b2 == IF up > b1[1] THEN <<up, "UP">> ELSE b1
        b3 == IF left > b2[1] THEN <<left, "LEFT">> ELSE b2
    IN  b3

\* SWBest that tests up before diag, so that a tie between the two records UP
SWBest_UpFirst(diag, up, left) ==
    LET b0 == <<0, "STOP">>
        b1 == IF up > b0[1] THEN <<up, "UP">> ELSE b0
        b2 == IF diag > b1[1] THEN <<diag, "DIAGONAL">> ELSE b1
        b3 == IF left > b2[1] THEN <<left, "LEFT">> ELSE b2
    IN  b3

\* the cell computed from the three candidates: <<best, direction>>
SWBest(diag, up, left) ==
    LET b0 == <<0, "STOP">>
        b1 == IF diag > b0[1] THEN <<diag, "DIAGONAL">> ELSE b0
        b2 == IF up > b1[1] THEN <<up, "UP">> ELSE b1
        b3 == IF left > b2[1] THEN <<left, "LEFT">> ELSE b2
    IN  b3

\* IsNewMax that also moves the maximum to a cell that only equals it
IsNewMax_OrEqual(best) == best >= max_score

\* "if best > max_score"
IsNewMax(best) == best > max_score

SWCall ==
    /\ pc = "idle"
    /\ swResult = NoResult
    /\ ~(Len(seq1) = 0 \/ Len(seq2) = 0)
    /\ H' = ZeroMatrix
    /\ traceback' = StopMatrix
    /\ max_score' = 0
    /\ max_i' = 0
    /\ max_j' = 0
    /\ i' = 1
    /\ j' = 1
    /\ pc' = "sw_fill"
    /\ UNCHANGED <<seq1, seq2, scoring, aligned1, aligned2, prev_row, curr_row,
                   swResult, nwResult, soResult, kmerVars, objVars>>

SWFill ==
    /\ pc = "sw_fill"
    /\ LET match_score == score(scoring, seq1[i], seq2[j])
           diag == H[i - 1][j - 1] + match_score
           up == H[i - 1][j] + gap_penalty(scoring)
           left == H[i][j - 1] + gap_penalty(scoring)
           cell == SWBest(diag, up, left)
           best == cell[1]
           newmax == IsNewMax(best)
       IN  /\ H' = [H EXCEPT ![i][j] = best]
           /\ traceback' = [traceback EXCEPT ![i][j] = cell[2]]
           /\ max_score' = IF newmax THEN best ELSE max_score
           /\ max_i' = IF newmax THEN i ELSE max_i
           /\ max_j' = IF newmax THEN j ELSE max_j
           /\ IF LastCell
              THEN \* _traceback_local(s1, s2, traceback, max_i, max_j) starts
                   /\ pc' = "sw_trace"
                   /\ i' = max_i'
                   /\ j' = max_j'
              ELSE /\ pc' = "sw_fill"
                   /\ i' = NextCell[1]
                   /\ j' = NextCell[2]
    /\ UNCHANGED <<seq1, seq2, scoring, aligned1, aligned2, prev_row, curr_row,
                   swResult, nwResult, soResult, kmerVars, objVars>>

\* TraceMove that emits no gap symbol into row 2 on an UP move
TraceMove_NoGap(direction) ==
    /\ direction \in {"DIAGONAL", "UP", "LEFT"}
    /\ aligned1' = (IF direction = "LEFT" THEN <<"-">> ELSE <<seq1[i]>>) \o aligned1
    /\ aligned2' = (IF direction = "UP" THEN <<>> ELSE <<seq2[j]>>) \o aligned2
    /\ i' = IF direction = "LEFT" THEN i ELSE i - 1
    /\ j' = IF direction = "UP" THEN j ELSE j - 1

\* TraceMove that puts the gap of an UP move into row 1 and the symbol of
\* sequence 2 into row 2, as a LEFT move does
TraceMove_UpAsLeft(direction) ==
    /\ direction \in {"DIAGONAL", "UP", "LEFT"}
    /\ aligned1' = (IF direction = "DIAGONAL" THEN <<seq1[i]>> ELSE <<"-">>) \o aligned1
    /\ aligned2' = <<seq2[j]>> \o aligned2
    /\ i' = IF direction = "LEFT" THEN i ELSE i - 1
    /\ j' = IF direction = "UP" THEN j ELSE j - 1

\* one move of a traceback loop, shared by the two tracebacks
TraceMove(direction) ==
    /\ direction \in {"DIAGONAL", "UP", "LEFT"}
    /\ aligned1' = (IF direction = "LEFT" THEN <<"-">> ELSE <<seq1[i]>>) \o aligned1
    /\ aligned2' = (IF direction = "UP" THEN <<"-">> ELSE <<seq2[j]>>) \o aligned2
    /\ i' = IF direction = "LEFT" THEN i ELSE i - 1
    /\ j' = IF direction = "UP" THEN j ELSE j - 1

\* SWTraceContinues that stops one row and one column early
SWTraceContinues_OffByOne == i > 1 /\ j > 1 /\ traceback[i][j] # "STOP"

\* the loop of _traceback_local goes round once more
SWTraceContinues == i > 0 /\ j > 0 /\ traceback[i][j] # "STOP"

SWTrace ==
    /\ pc = "sw_trace"
    /\ SWTraceContinues
    /\ TraceMove(traceback[i][j])
    /\ UNCHANGED <<seq1, seq2, scoring, pc, H, traceback, max_score, max_i, max_j,
                   prev_row, curr_row, swResult, nwResult, soResult, kmerVars, objVars>>

SWReturn ==
    /\ pc = "sw_trace"
    /\ ~SWTraceContinues
    /\ AlignmentAccepted(aligned1, aligned2)
    /\ swResult' = Returned(with_positions(aligned1, aligned2, max_score,
                                           i, max_i, j, max_j, "LOCAL"))
    /\ pc' = "idle"
    /\ LocalsCleared
    /\ UNCHANGED <<seq1, seq2, scoring, nwResult, soResult, kmerVars, objVars>>

----------------------------------------------------------------------------
(* needleman_wunsch *)

\* H left at zero in the first row and column, as in the local fill
NWBorderMatrix_Zero == [r \in 0..m |-> [c \in 0..n |-> 0]]

\* H with the first row and column set to the gap penalties
NWBorderMatrix ==
    [r \in 0..m |-> [c \in 0..n |->
        IF c = 0 THEN r * gap_penalty(scoring)
        ELSE IF r = 0 THEN c * gap_penalty(scoring)
        ELSE 0]]

\* traceback with column 0 set to UP and row 0 to LEFT; (0, 0) stays STOP
NWBorderTraceback ==
    [r \in 0..m |-> [c \in 0..n |->
        IF r >= 1 /\ c = 0 THEN "UP"
        ELSE IF r = 0 /\ c >= 1 THEN "LEFT"
        ELSE "STOP"]]

\* NWBest that never takes the left candidate
NWBest_NoLeft(diag, up, left) ==
    LET b1 == <<diag, "DIAGONAL">>
        b2 == IF up > b1[1] THEN <<up, "UP">> ELSE b1
    IN  b2

\* NWBest whose direction starts as STOP, as in the local fill, so that a
\* cell won by diag records STOP
NWBest_StopStart(diag, up, left) ==
    LET b1 == <<diag, "STOP">>
        b2 == IF up > b1[1] THEN <<up, "UP">> ELSE b1
        b3 == IF left > b2[1] THEN <<left, "LEFT">> ELSE b2
    IN  b3

\* the cell computed from the three candidates: <<best, direction>>
NWBest(diag, up, left) ==
    LET b1 == <<diag, "DIAGONAL">>
        b2 == IF up > b1[1] THEN <<up, "UP">> ELSE b1
        b3 == IF left > b2[1] THEN <<left, "LEFT">> ELSE b2
    IN  b3

NWCall ==
    /\ pc = "idle"
    /\ nwResult = NoResult
    /\ ~(Len(seq1) = 0 \/ Len(seq2) = 0)
    /\ H' = NWBorderMatrix
    /\ traceback' = NWBorderTraceback
    /\ i' = 1
    /\ j' = 1
    /\ pc' = "nw_fill"
    /\ UNCHANGED <<seq1, seq2, scoring, max_score, max_i, max_j, aligned1,
                   aligned2, prev_row, curr_row, swResult, nwResult, soResult,
                   kmerVars, objVars>>

NWFill ==
    /\ pc = "nw_fill"
    /\ LET match_score == score(scoring, seq1[i], seq2[j])
           diag == H[i - 1][j - 1] + match_score
           up == H[i - 1][j] + gap_penalty(scoring)
           left == H[i][j - 1] + gap_penalty(scoring)
           cell == NWBest(diag, up, left)
       IN  /\ H' = [H EXCEPT ![i][j] = cell[1]]
           /\ traceback' = [traceback EXCEPT ![i][j] = cell[2]]
    /\ IF LastCell
       THEN \* _traceback_global(s1, s2, traceback, m, n) starts
            /\ pc' = "nw_trace"
            /\ i' = m
            /\ j' = n
       ELSE /\ pc' = "nw_fill"
            /\ i' = NextCell[1]
            /\ j' = NextCell[2]
    /\ UNCHANGED <<seq1, seq2, scoring, max_score, max_i, max_j, aligned1,
                   aligned2, prev_row, curr_row, swResult, nwResult, soResult,
                   kmerVars, objVars>>

\* the move _traceback_global makes at (i, j); STOP is its "else: break"
NWDirection ==
    IF i = 0 THEN "LEFT"
    ELSE IF j = 0 THEN "UP"
    ELSE traceback[i][j]

\* the loop of _traceback_global goes round once more
NWTraceContinues == (i > 0 \/ j > 0) /\ NWDirection # "STOP"

NWTrace ==
    /\ pc = "nw_trace"
    /\ NWTraceContinues
    /\ TraceMove(NWDirection)
    /\ UNCHANGED <<seq1, seq2, scoring, pc, H, traceback, max_score, max_i, max_j,
                   prev_row, curr_row, swResult, nwResult, soResult, kmerVars, objVars>>

NWReturn ==
    /\ pc = "nw_trace"
    /\ ~NWTraceContinues
    /\ AlignmentAccepted(aligned1, aligned2)
    /\ nwResult' = Returned(AlignmentNew(aligned1, aligned2, H[m][n], "GLOBAL"))
    /\ pc' = "idle"
    /\ LocalsCleared
    /\ UNCHANGED <<seq1, seq2, scoring, swResult, soResult, kmerVars, objVars>>

----------------------------------------------------------------------------
(* alignment_score_only *)

ZeroRow == [c \in 0..n |-> 0]

\* SOBest without the 0: max(diag, up, left)
SOBest_NoFloor(diag, up, left) == SetMax({diag, up, left})

\* max(0, diag, up, left)
SOBest(diag, up, left) == SetMax({0, diag, up, left})

SOCall ==
    /\ pc = "idle"
    /\ soResult = NoResult
    /\ ~(Len(seq1) = 0 \/ Len(seq2) = 0)
    /\ prev_row' = ZeroRow
    /\ curr_row' = ZeroRow
    /\ max_score' = 0
    /\ i' = 1
    /\ j' = 1
    /\ pc' = "so_fill"
    /\ UNCHANGED <<seq1, seq2, scoring, H, traceback, max_i, max_j, aligned1,
                   aligned2, swResult, nwResult, soResult, kmerVars, objVars>>

SOFill ==
    /\ pc = "so_fill"
    /\ LET match_score == score(scoring, seq1[i], seq2[j])
           diag == prev_row[j - 1] + match_score
           up == prev_row[j] + gap_penalty(scoring)
           left == curr_row[j - 1] + gap_penalty(scoring)
           best == SOBest(diag, up, left)
           row == [curr_row EXCEPT ![j] = best]
       IN  /\ max_score' = IF best > max_score THEN best ELSE max_score
           /\ IF j < n
              THEN /\ curr_row' = row
                   /\ prev_row' = prev_row
                   /\ i' = i
                   /\ j' = j + 1
                   /\ pc' = "so_fill"
              ELSE \* the rows are swapped; the next row starts from a fresh one
                   /\ prev_row' = row
                   /\ curr_row' = IF i < m THEN ZeroRow ELSE prev_row
                   /\ i' = i + 1
                   /\ j' = 1
                   /\ pc' = IF i < m THEN "so_fill" ELSE "so_ret"
    /\ UNCHANGED <<seq1, seq2, scoring, H, traceback, max_i, max_j, aligned1,
                   aligned2, swResult, nwResult, soResult, kmerVars, objVars>>

SOReturn ==
    /\ pc = "so_ret"
    /\ soResult' = Returned(max_score)
    /\ pc' = "idle"
    /\ LocalsCleared
    /\ UNCHANGED <<seq1, seq2, scoring, swResult, nwResult, kmerVars, objVars>>

----------------------------------------------------------------------------
(* KMerCounter *)

\* str.upper() on the characters the strings are made of
UpperChar(c) ==
    CASE c = "a" -> <<"A">>
      [] c = "c" -> <<"C">>
      [] c = "g" -> <<"G">>
      [] c = "t" -> <<"T">>
      [] c = "u" -> <<"U">>
      [] c = "n" -> <<"N">>
      [] c = SharpS -> <<"S", "S">>
      [] OTHER -> <<c>>

RECURSIVE Upper(_)
\* str.upper(): the upper-case forms of the characters, one after the other
Upper(s) == IF s = <<>> THEN <<>> ELSE UpperChar(Head(s)) \o Upper(Tail(s))

\* a dict: dict.get(key, default) and dict[key] = value
DictGet(d, key, default) == IF key \in DOMAIN d THEN d[key] ELSE default
DictPut(d, key, value) ==
    [x \in (DOMAIN d) \cup {key} |-> IF x = key THEN value ELSE d[x]]
EmptyDict == <<>>

\* KMerCounter.new(k), for k > 0
KMerCounterNew(k) == [k |-> k, counts |-> EmptyDict, total_kmers |-> 0]

\* the outcome of a method: whether it raised, and the counter it leaves
Outcome(raised, ctr) == [raised |-> raised, ctr |-> ctr]

\* add without the "count <= 0" check
AddCall_NoCountCheck(self, kmer, count) ==
    IF Len(kmer) # self.k THEN Outcome(TRUE, self)
    ELSE LET key == Upper(kmer)
         IN  Outcome(FALSE,
                     [self EXCEPT
                        !.counts = DictPut(@, key, DictGet(@, key, 0) + count),
                        !.total_kmers = @ + count])

\* self.add(kmer, count)
AddCall(self, kmer, count) ==
    IF Len(kmer) # self.k THEN Outcome(TRUE, self)
    ELSE IF count <= 0 THEN Outcome(TRUE, self)
    ELSE LET key == Upper(kmer)
         IN  Outcome(FALSE,
                     [self EXCEPT
                        !.counts = DictPut(@, key, DictGet(@, key, 0) + count),
                        !.total_kmers = @ + count])

\* "'N' not in kmer"
HasNoN(kmer) == \A x \in 1..Len(kmer) : kmer[x] # "N"

\* the loop bound without its "+ 1": the last window is never visited
WindowStarts_OffByOne(self, sequence) == 0..(Len(sequence) - self.k - 1)

\* the windows "for i in range(len(sequence) - self.k + 1)" visits (0-based)
WindowStarts(self, sequence) == 0..(Len(sequence) - self.k)

RECURSIVE CountLoop(_, _, _)
\* the loop of count_kmers from window idx on; an add that raises ends it
CountLoop(self, sequence, idx) ==
    IF idx \notin WindowStarts(self, sequence) THEN Outcome(FALSE, self)
    ELSE LET kmer == Slice(sequence, idx, idx + self.k)
         IN  IF HasNoN(kmer)
             THEN LET r == AddCall(self, kmer, 1)
                  IN  IF r.raised THEN r ELSE CountLoop(r.ctr, sequence, idx + 1)
             ELSE CountLoop(self, sequence, idx + 1)

\* self.count_kmers(sequence)
CountKmersCall(self, sequence) == CountLoop(self, Upper(sequence), 0)

RECURSIVE MergeLoop_Overwrite(_, _, _)
\* the loop storing other's count instead of adding it to the stored one
MergeLoop_Overwrite(self, other, keys) ==
    IF keys = {} THEN self
    ELSE LET kmer == CHOOSE x \in keys : TRUE
             count == other.counts[kmer]
         IN  MergeLoop_Overwrite([self EXCEPT
                                    !.counts = DictPut(@, kmer, count),
                                    !.total_kmers = @ + count],
                                 other, keys \ {kmer})

RECURSIVE MergeLoop(_, _, _)
\* the loop of merge over the items of other.counts still to visit; each item
\* changes its own key only, so the order of the visits does not matter
MergeLoop(self, other, keys) ==
    IF keys = {} THEN self
    ELSE LET kmer == CHOOSE x \in keys : TRUE
             count == other.counts[kmer]
         IN  MergeLoop([self EXCEPT
                          !.counts = DictPut(@, kmer, DictGet(@, kmer, 0) + count),
                          !.total_kmers = @ + count],
                       other, keys \ {kmer})

\* self.merge(other)
MergeCall(self, other) ==
    IF self.k # other.k THEN Outcome(TRUE, self)
    ELSE Outcome(FALSE, MergeLoop(self, other, DOMAIN other.counts))

CounterIds == {1, 2}

StringsUpTo(S, len) == {<<>>} \cup SeqsUpTo(S, len)

\* the strings handed to count_kmers
CountStrings == StringsUpTo(KmerChars, MaxStrLen)

\* the k-mers handed to add: the strings of every width a counter may have,
\* so that each counter is handed k-mers of its own width and of another one
AddKmers == UNION {[1..k -> AddChars] : k \in KValues}

\* the bases of the Sequence objects handed to count_from_sequence
CountSequences == SeqsUpTo(KmerBases, MaxStrLen)

\* the k-mers counted over all counters together
TotalCounted(cs) == cs[1].total_kmers + cs[2].total_kmers

\* a method called on counters[c] ends with outcome r
MethodEnds(c, op, r) ==
    /\ counters' = [counters EXCEPT ![c] = r.ctr]
    /\ TotalCounted(counters') <= MaxTotal
    /\ lastCall' = [op |-> op, raised |-> r.raised]
    /\ UNCHANGED <<alignVars, objVars>>

Add(c, kmer, count) == MethodEnds(c, "add", AddCall(counters[c], kmer, count))

CountKmers(c, sequence) ==
    MethodEnds(c, "count_kmers", CountKmersCall(counters[c], sequence))

\* count_from_sequence(sequence) is count_kmers(sequence.bases)
CountFromSequence(c, bases) ==
    MethodEnds(c, "count_from_sequence", CountKmersCall(counters[c], bases))

Merge(c, d) == MethodEnds(c, "merge", MergeCall(counters[c], counters[d]))

----------------------------------------------------------------------------
(* The alignment functions called on one pair of sequences *)

KMerIdle ==
    /\ counters = <<>>
    /\ lastCall = NoResult

CigarIdle ==
    /\ alignObj = NoResult
    /\ cigar = NoResult

ObjIdle ==
    /\ kmerObj = NoResult
    /\ seqObj = NoResult
    /\ distance = NoResult
    /\ targets = <<>>
    /\ alignments = <<>>
    /\ bestResult = NoResult
    /\ CigarIdle

AlignIdle ==
    /\ seq1 = <<>>
    /\ seq2 = <<>>
    /\ scoring = default_dna
    /\ pc = "idle"
    /\ H = NoMatrix
    /\ traceback = NoMatrix
    /\ i = 0
    /\ j = 0
    /\ max_score = 0
    /\ max_i = 0
    /\ max_j = 0
    /\ aligned1 = <<>>
    /\ aligned2 = <<>>
    /\ prev_row = <<>>
    /\ curr_row = <<>>
    /\ swResult = NoResult
    /\ nwResult = NoResult
    /\ soResult = NoResult

InitAlign ==
    /\ seq1 \in AlignSeqs
    /\ seq2 \in AlignSeqs
    /\ scoring \in Scorings
    /\ pc = "idle"
    /\ H = NoMatrix
    /\ traceback = NoMatrix
    /\ i = 0
    /\ j = 0
    /\ max_score = 0
    /\ max_i = 0
    /\ max_j = 0
    /\ aligned1 = <<>>
    /\ aligned2 = <<>>
    /\ prev_row = <<>>
    /\ curr_row = <<>>
    /\ swResult = NoResult
    /\ nwResult = NoResult
    /\ soResult = NoResult
    /\ KMerIdle
    /\ ObjIdle

NextAlign ==
    \/ SWCall
    \/ SWFill
    \/ SWTrace
    \/ SWReturn
    \/ NWCall
    \/ NWFill
    \/ NWTrace
    \/ NWReturn
    \/ SOCall
    \/ SOFill
    \/ SOReturn

SpecAlign == InitAlign /\ [][NextAlign]_vars

----------------------------------------------------------------------------
(* Two counters and the methods called on them *)

InitKMer ==
    /\ counters \in [CounterIds -> {KMerCounterNew(k) : k \in KValues}]
    /\ lastCall = NoResult
    /\ AlignIdle
    /\ ObjIdle

NextKMer ==
    \/ \E c \in CounterIds, kmer \in AddKmers, count \in AddCounts :
          Add(c, kmer, count)
    \/ \E c \in CounterIds, sequence \in CountStrings : CountKmers(c, sequence)
    \/ \E c \in CounterIds, bases \in CountSequences : CountFromSequence(c, bases)
    \/ \E c \in CounterIds, d \in CounterIds : Merge(c, d)

SpecKMer == InitKMer /\ [][NextKMer]_vars

----------------------------------------------------------------------------
(* Properties of the alignment functions *)

Cells == (0..m) \X (0..n)

SWReturned == swResult # NoResult
NWReturned == nwResult # NoResult
SOReturned == soResult # NoResult

HasGap(row) == \E c \in 1..Len(row) : row[c] = "-"

\* C1: alignment_score_only returns the same integer as smith_waterman's
\* score for the same sequences and scoring.
C1_ScoreOnlyMatchesFull ==
    (SWReturned /\ SOReturned) => soResult.value = swResult.value.score

\* both functions returned, on an alignment that scores and spans a gap
C1_Witness ==
    /\ SWReturned
    /\ SOReturned
    /\ soResult.value > 0
    /\ HasGap(swResult.value.aligned_seq1)

\* C2: in both tracebacks the two rows have equal length after every step, so
\* the returned rows have equal length and the Alignment constructor accepts them.
C2_EqualLength ==
    /\ Len(aligned1) = Len(aligned2)
    /\ (pc = "sw_trace" /\ ~SWTraceContinues) => AlignmentAccepted(aligned1, aligned2)
    /\ (pc = "nw_trace" /\ ~NWTraceContinues) => AlignmentAccepted(aligned1, aligned2)
    /\ SWReturned =>
         Len(swResult.value.aligned_seq1) = Len(swResult.value.aligned_seq2)
    /\ NWReturned =>
         Len(nwResult.value.aligned_seq1) = Len(nwResult.value.aligned_seq2)

\* both algorithms returned rows that hold gaps
C2_Witness ==
    /\ SWReturned
    /\ NWReturned
    /\ HasGap(swResult.value.aligned_seq1) \/ HasGap(swResult.value.aligned_seq2)
    /\ HasGap(nwResult.value.aligned_seq1)
    /\ HasGap(nwResult.value.aligned_seq2)

\* C3: every cell of smith_waterman's H is >= 0, row 0 and column 0 included,
\* and the returned score is the maximum over all cells of the filled H.
C3_ScoreIsMaxCell ==
    /\ [](pc \in {"sw_fill", "sw_trace"} =>
            \A c \in Cells : H[c[1]][c[2]] >= 0)
    /\ [][(pc = "sw_trace" /\ pc' = "idle") =>
            /\ swResult'.value.score = SetMax({H[c[1]][c[2]] : c \in Cells})
            /\ swResult'.value.score >= 0]_vars

\* smith_waterman returned from a matrix with a mismatch cell floored at 0
C3_Witness ==
    /\ SWReturned
    /\ swResult.value.score > 0
    /\ \E a \in 1..m, b \in 1..n : seq1[a] # seq2[b]

\* Every gapped alignment, written as its moves from the first column to the
\* last: D pairs a symbol of each sequence, U pairs a symbol of sequence 1 with
\* a gap, L pairs a gap with a symbol of sequence 2.  PathsOver(a, b) are the
\* alignments of a symbols of sequence 1 with b symbols of sequence 2.
RECURSIVE PathsOver(_, _)
PathsOver(a, b) ==
    IF a = 0 /\ b = 0 THEN {<<>>}
    ELSE (IF a > 0 /\ b > 0
          THEN {Append(p, "D") : p \in PathsOver(a - 1, b - 1)} ELSE {})
         \cup (IF a > 0 THEN {Append(p, "U") : p \in PathsOver(a - 1, b)} ELSE {})
         \cup (IF b > 0 THEN {Append(p, "L") : p \in PathsOver(a, b - 1)} ELSE {})

AllPaths == [ab \in (0..MaxLen) \X (0..MaxLen) |-> PathsOver(ab[1], ab[2])]

\* what one column of an alignment scores
ColumnScore(x, y) ==
    IF x = "-" \/ y = "-" THEN scoring.gap_open_penalty
    ELSE IF x = y THEN scoring.match_score
    ELSE scoring.mismatch_penalty

RECURSIVE PathScore(_, _, _)
\* the summed column scores of alignment p of seq1[a+1..] with seq2[b+1..]
PathScore(p, a, b) ==
    IF p = <<>> THEN 0
    ELSE LET mv == Head(p)
             x == IF mv = "L" THEN "-" ELSE seq1[a + 1]
             y == IF mv = "U" THEN "-" ELSE seq2[b + 1]
         IN  ColumnScore(x, y)
             + PathScore(Tail(p), IF mv = "L" THEN a ELSE a + 1,
                                  IF mv = "U" THEN b ELSE b + 1)

\* the best score over all alignments of the complete sequences
GlobalOptimum == SetMax({PathScore(p, 0, 0) : p \in AllPaths[<<m, n>>]})

\* the best score over all alignments of a substring of seq1 with a substring
\* of seq2; the empty alignment scores 0
LocalOptimum ==
    SetMax(UNION {UNION {{PathScore(p, st[1], st[2]) : p \in AllPaths[ln]} :
                         ln \in (0..(m - st[1])) \X (0..(n - st[2]))} :
                  st \in Cells})

\* C4: needleman_wunsch's score is the maximum summed column score over all
\* gapped alignments of the complete sequences, and smith_waterman's score is
\* that maximum over all pairs of contiguous substrings (0 for the empty one).
C4_ScoresOptimal ==
    (pc = "idle" /\ SWReturned /\ NWReturned) =>
        /\ nwResult.value.score = GlobalOptimum
        /\ swResult.value.score = LocalOptimum

\* both returned where the best global alignment has a gap and scores below
\* the best local one, which starts inside seq1
C4_Witness ==
    /\ pc = "idle"
    /\ SWReturned
    /\ NWReturned
    /\ HasGap(nwResult.value.aligned_seq1)
    /\ swResult.value.start1 > 0
    /\ nwResult.value.score < swResult.value.score

\* C5: smith_waterman(s, s) returns both rows equal to s.bases with no gap,
\* identity 1.0 and score match_score * len(s).
C5_SelfAlignment ==
    (SWReturned /\ seq1 = seq2) =>
        /\ swResult.value.aligned_seq1 = seq1
        /\ swResult.value.aligned_seq2 = seq1
        /\ swResult.value.identity[1] = swResult.value.identity[2]
        /\ swResult.value.score = scoring.match_score * Len(seq1)

\* smith_waterman returned for a sequence against itself that also matches
\* itself off the main diagonal
C5_Witness ==
    /\ SWReturned
    /\ seq1 = seq2
    /\ Len(seq1) = MaxLen
    /\ seq1[1] = seq1[Len(seq1)]
    /\ seq1[1] # seq1[2]

\* C6: the needleman_wunsch traceback starts at (m, n), each step moves
\* towards (0, 0), on row 0 it emits LEFT moves only and on column 0 UP moves
\* only, it leaves the loop at (0, 0) and never through the STOP branch, and
\* the returned rows with the gaps removed are seq1.bases and seq2.bases.
C6_GlobalTraceback ==
    /\ []((pc = "nw_trace" /\ ~NWTraceContinues) => (i = 0 /\ j = 0))
    /\ [](pc = "nw_trace" => ENABLED (NWTrace \/ NWReturn))
    /\ [](NWReturned =>
            /\ Degap(nwResult.value.aligned_seq1) = seq1
            /\ Degap(nwResult.value.aligned_seq2) = seq2)
    /\ [][(pc = "nw_fill" /\ pc' = "nw_trace") => (i' = m /\ j' = n)]_vars
    /\ [][(pc = "nw_trace" /\ pc' = "nw_trace") =>
            /\ i' >= 0 /\ j' >= 0 /\ i' + j' < i + j
            /\ i = 0 => (i' = 0 /\ j' = j - 1 /\ aligned1' = <<"-">> \o aligned1)
            /\ j = 0 => (j' = 0 /\ i' = i - 1 /\ aligned2' = <<"-">> \o aligned2)]_vars

\* needleman_wunsch returned after its traceback walked along row 0
C6_Witness ==
    /\ NWReturned
    /\ Len(seq1) >= 2
    /\ nwResult.value.aligned_seq1[1] = "-"
    /\ nwResult.value.aligned_seq1[2] = "-"

\* C7: the positions of an Alignment returned by needleman_wunsch are
\* half-open ranges into the original sequences:
\* 0 <= start1 <= end1 <= len(seq1) and 0 <= start2 <= end2 <= len(seq2).
C7_GlobalRangesInSequences ==
    NWReturned =>
        /\ 0 <= nwResult.value.start1
        /\ nwResult.value.start1 <= nwResult.value.end1
        /\ nwResult.value.end1 <= Len(seq1)
        /\ 0 <= nwResult.value.start2
        /\ nwResult.value.start2 <= nwResult.value.end2
        /\ nwResult.value.end2 <= Len(seq2)

----------------------------------------------------------------------------
(* Properties of KMerCounter *)

RECURSIVE SumOfCounts(_, _)
\* the sum of d[x] over the keys x in keys
SumOfCounts(d, keys) ==
    IF keys = {} THEN 0
    ELSE LET x == CHOOSE y \in keys : TRUE
         IN  d[x] + SumOfCounts(d, keys \ {x})

CounterInvariant(ctr) ==
    /\ \A key \in DOMAIN ctr.counts :
          /\ Len(key) = ctr.k
          /\ ctr.counts[key] \in Nat \ {0}
    /\ ctr.total_kmers = SumOfCounts(ctr.counts, DOMAIN ctr.counts)

\* C8: after any sequence of add, count_kmers / count_from_sequence and merge
\* calls, successful or failing, every key of a counter has length k, every
\* stored count is a positive integer and total_kmers is the sum of the counts.
C8_CounterInvariant == \A c \in CounterIds : CounterInvariant(counters[c])

\* the windows of bases at positions 0..len-k that contain no N
CleanWindows(bases, k) ==
    {p \in 0..(Len(bases) - k) : \A x \in 1..k : bases[p + x] # "N"}

\* how often kmer occurs among those windows
Occurrences(bases, kmer) ==
    Cardinality({p \in CleanWindows(bases, Len(kmer)) :
                    \A x \in 1..Len(kmer) : bases[p + x] = kmer[x]})

C10_Add ==
    \A c \in CounterIds : \A kmer \in AddKmers : \A count \in AddCounts :
        LET self == counters[c]
            r == AddCall(self, kmer, count)
            key == Upper(kmer)
        IN  IF Len(kmer) # self.k \/ count <= 0
            THEN r.raised /\ r.ctr = self
            ELSE /\ ~r.raised
                 /\ r.ctr.k = self.k
                 /\ r.ctr.total_kmers = self.total_kmers + count
                 /\ key \in DOMAIN r.ctr.counts
                 /\ r.ctr.counts[key] = DictGet(self.counts, key, 0) + count
                 /\ DOMAIN r.ctr.counts = DOMAIN self.counts \cup {key}
                 /\ \A other \in DOMAIN self.counts \ {key} :
                       r.ctr.counts[other] = self.counts[other]

\* an add has raised while a counter holds as many k-mers as the model lets it
C10_Witness ==
    /\ lastCall = [op |-> "add", raised |-> TRUE]
    /\ \E c \in CounterIds : counters[c].total_kmers = MaxTotal

----------------------------------------------------------------------------
(* The same data counted split over two counters and on a single counter *)

\* the counters of the comparison: the data goes to A or to B and, in the same
\* order, to single; AB is A after A.merge(B) and BA is B after B.merge(A)
MergeIds == {"A", "B", "single", "AB", "BA"}

\* one addition of the data: x.add(kmer, count) and single.add(kmer, count)
SplitAdd(x, kmer, count) ==
    LET r == AddCall(counters[x], kmer, count)
        rs == AddCall(counters["single"], kmer, count)
    IN  /\ rs.ctr.total_kmers <= MaxTotal
        /\ counters' = [counters EXCEPT ![x] = r.ctr, !["single"] = rs.ctr]
        /\ lastCall' = [op |-> "add", raised |-> r.raised]
        /\ UNCHANGED <<alignVars, objVars>>

\* x.count_kmers(sequence) and single.count_kmers(sequence)
SplitCount(x, sequence) ==
    LET r == CountKmersCall(counters[x], sequence)
        rs == CountKmersCall(counters["single"], sequence)
    IN  /\ rs.ctr.total_kmers <= MaxTotal
        /\ counters' = [counters EXCEPT ![x] = r.ctr, !["single"] = rs.ctr]
        /\ lastCall' = [op |-> "count_kmers", raised |-> r.raised]
        /\ UNCHANGED <<alignVars, objVars>>

\* A.merge(B) and B.merge(A), each on the counters as they are now; merge
\* changes its receiver, which is kept as AB and BA
MergeBoth ==
    LET ab == MergeCall(counters["A"], counters["B"])
        ba == MergeCall(counters["B"], counters["A"])
    IN  /\ counters' = [counters EXCEPT !["AB"] = ab.ctr, !["BA"] = ba.ctr]
        /\ lastCall' = [op |-> "merge", raised |-> ab.raised \/ ba.raised]
        /\ UNCHANGED <<alignVars, objVars>>

InitMerge ==
    /\ \E k \in KValues : counters = [x \in MergeIds |-> KMerCounterNew(k)]
    /\ lastCall = NoResult
    /\ AlignIdle
    /\ ObjIdle

NextMerge ==
    \/ \E x \in {"A", "B"}, kmer \in AddKmers, count \in AddCounts :
          SplitAdd(x, kmer, count)
    \/ \E x \in {"A", "B"}, sequence \in CountStrings : SplitCount(x, sequence)
    \/ MergeBoth

SpecMerge == InitMerge /\ [][NextMerge]_vars

SameCounts(c, d) ==
    /\ c.total_kmers = d.total_kmers
    /\ \A key \in (DOMAIN c.counts) \cup (DOMAIN d.counts) :
          DictGet(c.counts, key, 0) = DictGet(d.counts, key, 0)

\* C11: for two counters A and B of the same k, A.merge(B) and B.merge(A) have
\* the same total_kmers and the same count for every key, and both equal the
\* single counter that received all the additions of A and of B, in whichever
\* order they were made.
C11_MergeCommutes ==
    lastCall = [op |-> "merge", raised |-> FALSE] =>
        /\ SameCounts(counters["AB"], counters["BA"])
        /\ SameCounts(counters["AB"], counters["single"])

\* both directions were merged when A and B each held a count of the same key
C11_Witness ==
    /\ lastCall = [op |-> "merge", raised |-> FALSE]
    /\ \E key \in DOMAIN counters["A"].counts :
          /\ key \in DOMAIN counters["B"].counts
          /\ counters["AB"].counts[key] = 2

----------------------------------------------------------------------------
(* KMer *)

\* what a constructor or a method raised instead of returning
Raised(e) == [error |-> e]

\* the code point of a character, for the comparison of strings
Ord(c) ==
    CASE c = "-" -> 45
      [] c = "A" -> 65
      [] c = "C" -> 67
      [] c = "G" -> 71
      [] c = "N" -> 78
      [] c = "S" -> 83
      [] c = "T" -> 84
      [] c = "U" -> 85
      [] c = "X" -> 88

RECURSIVE StrLess(_, _)
\* s < t on Python strings: the first differing character decides, and a
\* proper prefix is smaller
StrLess(s, t) ==
    IF t = <<>> THEN FALSE
    ELSE IF s = <<>> THEN TRUE
    ELSE IF Head(s) = Head(t) THEN StrLess(Tail(s), Tail(t))
    ELSE Ord(Head(s)) < Ord(Head(t))

\* s[::-1] and reversed(s)
Reversed(s) == [x \in 1..Len(s) |-> s[Len(s) + 1 - x]]

\* KMer(sequence): upper-cased, k set to the length, no empty k-mer
KMerInit(sequence) ==
    LET upper == Upper(sequence)
    IN  IF Len(upper) = 0 THEN Raised("ValueError")
        ELSE Returned([sequence |-> upper, k |-> Len(upper)])

\* comp_map.get(c, 'N') of KMer.reverse_complement
KMerCompMap(c) ==
    CASE c = "A" -> "T"
      [] c = "T" -> "A"
      [] c = "C" -> "G"
      [] c = "G" -> "C"
      [] c = "N" -> "N"
      [] OTHER -> "N"

\* self.reverse_complement()
KMerReverseComplement(self) ==
    LET reversed == Reversed(self.sequence)
        rc == [x \in 1..Len(reversed) |-> KMerCompMap(reversed[x])]
    IN  KMerInit(rc).value

\* canonical with the comparison turned around
KMerCanonical_Larger(self) ==
    LET rc == KMerReverseComplement(self)
    IN  IF StrLess(rc.sequence, self.sequence) THEN self ELSE rc

\* self.canonical()
KMerCanonical(self) ==
    LET rc == KMerReverseComplement(self)
    IN  IF StrLess(self.sequence, rc.sequence) THEN self ELSE rc

\* the k-mers constructed: every string over the DNA alphabet up to MaxStrLen
DnaAlphabet == {"A", "C", "G", "T", "N"}
KMerTexts == SeqsUpTo(DnaAlphabet, MaxStrLen)

\* kmerObj = kmerObj.reverse_complement()
ReverseComplementKMer ==
    /\ kmerObj' = Returned(KMerReverseComplement(kmerObj.value))
    /\ lastCall' = [op |-> "reverse_complement", raised |-> FALSE]
    /\ UNCHANGED <<alignVars, counters, seqObj, distance, targets,
                   alignments, bestResult, cigarVars>>

\* kmerObj = kmerObj.canonical()
CanonicalKMer ==
    /\ kmerObj' = Returned(KMerCanonical(kmerObj.value))
    /\ lastCall' = [op |-> "canonical", raised |-> FALSE]
    /\ UNCHANGED <<alignVars, counters, seqObj, distance, targets,
                   alignments, bestResult, cigarVars>>

InitKMerObj ==
    /\ kmerObj \in {KMerInit(text) : text \in KMerTexts}
    /\ seqObj = NoResult
    /\ distance = NoResult
    /\ targets = <<>>
    /\ alignments = <<>>
    /\ bestResult = NoResult
    /\ CigarIdle
    /\ KMerIdle
    /\ AlignIdle

NextKMerObj ==
    \/ ReverseComplementKMer
    \/ CanonicalKMer

SpecKMerObj == InitKMerObj /\ [][NextKMerObj]_vars

----------------------------------------------------------------------------
(* Properties of KMer *)

\* s <= t lexicographically, by the first position where the two differ
LexLeq(s, t) ==
    \/ s = t
    \/ \E p \in 1..Len(t) :
          /\ \A x \in 1..(p - 1) : x <= Len(s) /\ s[x] = t[x]
          /\ \/ p = Len(s) + 1
             \/ p <= Len(s) /\ Ord(s[p]) < Ord(t[p])

\* C12: for every k-mer x over {A,C,G,T,N}, canonical(x).sequence is the
\* lexicographically smaller of x and reverse_complement(x); canonical(x)
\* equals canonical(reverse_complement(x)), and canonical is idempotent.
C12_Canonical ==
    LET x == kmerObj.value
        rc == KMerReverseComplement(x)
        c == KMerCanonical(x)
    IN  /\ c.sequence \in {x.sequence, rc.sequence}
        /\ LexLeq(c.sequence, x.sequence)
        /\ LexLeq(c.sequence, rc.sequence)
        /\ KMerCanonical(rc).sequence = c.sequence
        /\ KMerCanonical(c).sequence = c.sequence

\* canonical has returned a k-mer of the longest width that differs from its
\* reverse complement
C12_Witness ==
    /\ lastCall = [op |-> "canonical", raised |-> FALSE]
    /\ kmerObj.value.k = MaxStrLen
    /\ KMerReverseComplement(kmerObj.value).sequence # kmerObj.value.sequence

----------------------------------------------------------------------------
(* Sequence *)

VALID_DNA_BASES == {"A", "C", "G", "T", "N"}
VALID_RNA_BASES == {"A", "C", "G", "U", "N"}

\* the kinds the Sequences here are constructed with
SeqKinds == {"DNA", "RNA"}

None == "None"

SeqError(type) == Raised([type |-> type])
InvalidBaseError(position, found) ==
    Raised([type |-> "InvalidBaseError", position |-> position, found |-> found])

valid_bases(seq_type) ==
    IF seq_type # "RNA" THEN VALID_DNA_BASES ELSE VALID_RNA_BASES

RECURSIVE Validate_OneBased(_, _, _)
\* the loop reporting the position counted from one
Validate_OneBased(bases, seq_type, idx) ==
    IF idx >= Len(bases) THEN NoResult
    ELSE IF bases[idx + 1] \notin valid_bases(seq_type)
         THEN InvalidBaseError(idx + 1, bases[idx + 1])
         ELSE Validate_OneBased(bases, seq_type, idx + 1)

RECURSIVE Validate(_, _, _)
\* the loop of _validate from index idx on (0-based): NoResult when it ends
\* without raising
Validate(bases, seq_type, idx) ==
    IF idx >= Len(bases) THEN NoResult
    ELSE IF bases[idx + 1] \notin valid_bases(seq_type)
         THEN InvalidBaseError(idx, bases[idx + 1])
         ELSE Validate(bases, seq_type, idx + 1)

\* Sequence(bases, id, description, seq_type, _validated): __post_init__
SequenceInit(bases, id, description, seq_type, validated) ==
    LET upper == Upper(bases)
        checked == IF validated THEN NoResult ELSE Validate(upper, seq_type, 0)
    IN  IF Len(upper) = 0 THEN SeqError("EmptySequenceError")
        ELSE IF checked # NoResult THEN checked
        ELSE Returned([bases |-> upper, id |-> id, description |-> description,
                       seq_type |-> seq_type])

\* Sequence.new(bases)
SequenceNew(bases) == SequenceInit(bases, None, None, "DNA", FALSE)

\* Sequence.with_metadata(bases, id, description, seq_type)
with_metadata(bases, id, description, seq_type) ==
    SequenceInit(bases, id, description, seq_type, FALSE)

\* subsequence without the check of end against the length; the slice of a
\* Python string stops at its end
subsequence_NoEndCheck(self, start, end) ==
    IF start < 0 THEN SeqError("ValueError")
    ELSE IF end <= start THEN SeqError("ValueError")
    ELSE LET stop == IF end > Len(self.bases) THEN Len(self.bases) ELSE end
         IN  SequenceInit(Slice(self.bases, start, stop), self.id,
                          self.description, self.seq_type, FALSE)

\* self.subsequence(start, end)
subsequence(self, start, end) ==
    IF start < 0 THEN SeqError("ValueError")
    ELSE IF end <= start THEN SeqError("ValueError")
    ELSE IF end > Len(self.bases) THEN SeqError("ValueError")
    ELSE SequenceInit(Slice(self.bases, start, end), self.id, self.description,
                      self.seq_type, FALSE)

\* complement_base with G left out of comp_map
complement_base_NoG(c) ==
    CASE c = "A" -> "T"
      [] c = "T" -> "A"
      [] c = "C" -> "G"
      [] c = "N" -> "N"
      [] OTHER -> "N"

\* Sequence.complement_base(c)
complement_base(c) ==
    CASE c = "A" -> "T"
      [] c = "T" -> "A"
      [] c = "C" -> "G"
      [] c = "G" -> "C"
      [] c = "N" -> "N"
      [] OTHER -> "N"

\* complement without the check of the kind
complement_NoKindCheck(self) ==
    LET comp_bases == [x \in 1..Len(self.bases) |->
                          complement_base(self.bases[x])]
    IN  SequenceInit(comp_bases, self.id, self.description, self.seq_type, TRUE)

\* self.complement()
complement(self) ==
    IF self.seq_type # "DNA" THEN SeqError("ValueError")
    ELSE LET comp_bases == [x \in 1..Len(self.bases) |->
                               complement_base(self.bases[x])]
         IN  SequenceInit(comp_bases, self.id, self.description, self.seq_type,
                          TRUE)

\* self.reverse()
reverse(self) ==
    SequenceInit(Reversed(self.bases), self.id, self.description,
                 self.seq_type, TRUE)

\* self.reverse_complement()
reverse_complement(self) ==
    IF self.seq_type # "DNA" THEN SeqError("ValueError")
    ELSE reverse(complement(self).value)

\* transcribe without the replacement of T
transcribe_NoReplace(self) ==
    IF self.seq_type # "DNA" THEN SeqError("ValueError")
    ELSE SequenceInit(self.bases, self.id, self.description, "RNA", TRUE)

\* self.transcribe(): bases.replace('T', 'U')
transcribe(self) ==
    IF self.seq_type # "DNA" THEN SeqError("ValueError")
    ELSE LET rna_bases == [x \in 1..Len(self.bases) |->
                              IF self.bases[x] = "T" THEN "U" ELSE self.bases[x]]
         IN  SequenceInit(rna_bases, self.id, self.description, "RNA", TRUE)

\* self.concat(other)
concat(self, other) ==
    IF self.seq_type # other.seq_type THEN SeqError("ValueError")
    ELSE SequenceInit(self.bases \o other.bases, self.id, self.description,
                      self.seq_type, TRUE)

\* the texts handed to the factories: up to two characters; longer Sequences,
\* up to MaxStrLen, come from concat
CreateTexts == StringsUpTo(TextChars, 2)

\* the Sequences a factory returns for those texts
Created ==
    LET outcomes == {SequenceNew(text) : text \in CreateTexts}
                    \cup {with_metadata(text, "seq1", "desc", kind) :
                             text \in CreateTexts, kind \in SeqKinds}
    IN  {r.value : r \in {o \in outcomes : "value" \in DOMAIN o}}

\* the indices handed to subsequence
Indices == -1..(MaxStrLen + 1)

\* seqObj holds a Sequence
HasSequence == "value" \in DOMAIN seqObj

\* a call ends: what it returned or raised is bound to seqObj
CallEnds(op, r) ==
    /\ "value" \in DOMAIN r => Len(r.value.bases) <= MaxStrLen
    /\ seqObj' = r
    /\ lastCall' = [op |-> op, raised |-> "error" \in DOMAIN r]
    /\ UNCHANGED <<alignVars, counters, kmerObj, distance, targets, alignments,
                   bestResult, cigarVars>>

NewSeq(text) ==
    /\ CallEnds("new", SequenceNew(text))
WithMetadata(text, kind) ==
    /\ CallEnds("with_metadata", with_metadata(text, "seq1", "desc", kind))
Subsequence(start, end) ==
    HasSequence /\ CallEnds("subsequence", subsequence(seqObj.value, start, end))
Complement == HasSequence /\ CallEnds("complement", complement(seqObj.value))
Reverse == HasSequence /\ CallEnds("reverse", reverse(seqObj.value))
ReverseComplement ==
    HasSequence /\ CallEnds("reverse_complement", reverse_complement(seqObj.value))
Transcribe == HasSequence /\ CallEnds("transcribe", transcribe(seqObj.value))
Concat(other) == HasSequence /\ CallEnds("concat", concat(seqObj.value, other))

InitSeq ==
    /\ seqObj = NoResult
    /\ kmerObj = NoResult
    /\ distance = NoResult
    /\ targets = <<>>
    /\ alignments = <<>>
    /\ bestResult = NoResult
    /\ CigarIdle
    /\ KMerIdle
    /\ AlignIdle

NextSeq ==
    \/ \E text \in CreateTexts : NewSeq(text)
    \/ \E text \in CreateTexts, kind \in SeqKinds : WithMetadata(text, kind)
    \/ \E start \in Indices, end \in Indices : Subsequence(start, end)
    \/ Complement
    \/ Reverse
    \/ ReverseComplement
    \/ Transcribe
    \/ \E other \in Created \cup (IF HasSequence THEN {seqObj.value} ELSE {}) :
          Concat(other)

SpecSeq == InitSeq /\ [][NextSeq]_vars

----------------------------------------------------------------------------
(* Properties of Sequence *)

\* the alphabet of a kind, as the specification gives it
Alphabet(kind) ==
    IF kind = "DNA" THEN {"A", "C", "G", "T", "N"}
    ELSE IF kind = "RNA" THEN {"A", "C", "G", "U", "N"}
    ELSE {}

Failed(r) == "value" \notin DOMAIN r
FailedWith(r, type) == "error" \in DOMAIN r /\ r.error.type = type

\* C13: every Sequence reached from the validating factories by any chain of
\* complement, reverse, reverse_complement, transcribe, concat and subsequence
\* has non-empty bases, every symbol of which belongs to the alphabet of its
\* kind, also when it was built with validation skipped.
C13_SequenceInvariant ==
    HasSequence =>
        /\ Len(seqObj.value.bases) > 0
        /\ \A x \in 1..Len(seqObj.value.bases) :
              seqObj.value.bases[x] \in Alphabet(seqObj.value.seq_type)

\* concat returned the longest RNA sequence, and one whose id is None: it
\* comes from transcribe and concat, both of which skip validation
C13_Witness ==
    /\ lastCall = [op |-> "concat", raised |-> FALSE]
    /\ seqObj.value.seq_type = "RNA"
    /\ seqObj.value.id = None
    /\ Len(seqObj.value.bases) = MaxStrLen
    /\ \E x \in 1..MaxStrLen : seqObj.value.bases[x] = "U"

SameButBases(s, r) ==
    /\ Len(r.bases) = Len(s.bases)
    /\ r.seq_type = s.seq_type
    /\ r.id = s.id
    /\ r.description = s.description

\* C14: for a valid DNA sequence s, s.complement().complement() has the bases
\* of s, and for every valid sequence s, s.reverse().reverse() has the bases
\* of s; both operations leave length, kind, id and description unchanged.
C14_Involutions ==
    HasSequence =>
        LET s == seqObj.value
            rev == reverse(s)
        IN  /\ ~Failed(rev)
            /\ SameButBases(s, rev.value)
            /\ reverse(rev.value) = Returned(s)
            /\ s.seq_type = "DNA" =>
                  LET comp == complement(s)
                  IN  /\ ~Failed(comp)
                      /\ SameButBases(s, comp.value)
                      /\ complement(comp.value) = Returned(s)

\* complement returned a sequence with metadata that holds a G and is not its
\* own reverse
C14_Witness ==
    /\ lastCall = [op |-> "complement", raised |-> FALSE]
    /\ seqObj.value.id = "seq1"
    /\ \E x \in 1..Len(seqObj.value.bases) : seqObj.value.bases[x] = "G"
    /\ Reversed(seqObj.value.bases) # seqObj.value.bases

\* C15 as stated: complement, reverse, reverse_complement and transcribe
\* each fail with a wrong-kind error on an RNA sequence and return no Sequence.
C15_DnaOnly ==
    (HasSequence /\ seqObj.value.seq_type = "RNA") =>
        /\ FailedWith(complement(seqObj.value), "ValueError")
        /\ FailedWith(reverse(seqObj.value), "ValueError")
        /\ FailedWith(reverse_complement(seqObj.value), "ValueError")
        /\ FailedWith(transcribe(seqObj.value), "ValueError")

\* C15 amended: complement, reverse_complement and transcribe each fail with
\* a wrong-kind error on an RNA sequence and return no Sequence; reverse does
\* not check the kind and returns the reversed RNA sequence.
C15_DnaOnlyButReverse ==
    (HasSequence /\ seqObj.value.seq_type = "RNA") =>
        /\ FailedWith(complement(seqObj.value), "ValueError")
        /\ FailedWith(reverse_complement(seqObj.value), "ValueError")
        /\ FailedWith(transcribe(seqObj.value), "ValueError")
        /\ ~Failed(reverse(seqObj.value))
        /\ reverse(seqObj.value).value.seq_type = "RNA"
        /\ reverse(seqObj.value).value.bases = Reversed(seqObj.value.bases)

\* reverse returned an RNA sequence that is not its own reverse
C15_Witness ==
    /\ lastCall = [op |-> "reverse", raised |-> FALSE]
    /\ seqObj.value.seq_type = "RNA"
    /\ Reversed(seqObj.value.bases) # seqObj.value.bases

\* what the construction from text and kind has to end with
ConstructsAsClaimed(text, kind, r) ==
    LET upper == Upper(text)
        bad == {p \in 0..(Len(upper) - 1) : upper[p + 1] \notin Alphabet(kind)}
    IN  IF text = <<>>
        THEN Failed(r) /\ FailedWith(r, "EmptySequenceError")
        ELSE IF bad # {}
        THEN /\ Failed(r)
             /\ FailedWith(r, "InvalidBaseError")
             /\ r.error.position \in bad
             /\ \A q \in bad : r.error.position <= q
             /\ r.error.found = upper[r.error.position + 1]
        ELSE /\ ~Failed(r)
             /\ r.value.bases = upper
             /\ r.value.seq_type = kind

\* C16: constructing a Sequence from text fails with the empty-sequence error
\* exactly when the text is empty, otherwise with the invalid-symbol error
\* carrying (p, c) exactly when some upper-cased symbol is outside the kind's
\* alphabet, p being the smallest such index and c the symbol at p; in every
\* other case it succeeds with the upper-cased text as bases.  No Sequence is
\* produced on failure.
C16_Construction ==
    /\ \A text \in CreateTexts :
          /\ ConstructsAsClaimed(text, "DNA", SequenceNew(text))
          /\ \A kind \in SeqKinds :
                ConstructsAsClaimed(text, kind,
                                    with_metadata(text, "seq1", "desc", kind))
    /\ (lastCall # NoResult /\ lastCall.op \in {"new", "with_metadata"}) =>
          (lastCall.raised <=> ~HasSequence)

\* a factory raised for an RNA text whose second symbol, T, is the first one
\* outside the alphabet
C16_Witness ==
    /\ lastCall = [op |-> "with_metadata", raised |-> TRUE]
    /\ seqObj = InvalidBaseError(1, "T")

\* C17: subsequence(start, end) fails exactly when start < 0 or end <= start
\* or end > length; otherwise it returns a new Sequence of the same kind whose
\* bases are bases[start:end], of length end - start.
C17_Subsequence ==
    HasSequence =>
        \A start \in Indices, end \in Indices :
            LET s == seqObj.value
                r == subsequence(s, start, end)
            IN  IF start < 0 \/ end <= start \/ end > Len(s.bases)
                THEN FailedWith(r, "ValueError")
                ELSE /\ ~Failed(r)
                     /\ r.value.seq_type = s.seq_type
                     /\ Len(r.value.bases) = end - start
                     /\ \A x \in 1..(end - start) :
                           r.value.bases[x] = s.bases[start + x]

\* subsequence returned a sequence one symbol shorter than the longest
C17_Witness ==
    /\ lastCall = [op |-> "subsequence", raised |-> FALSE]
    /\ Len(seqObj.value.bases) = MaxStrLen - 1
    /\ seqObj.value.id = "seq1"

----------------------------------------------------------------------------
(* count_kmers and kmer_distance *)

\* count_kmers(sequence, k), the function of the module
count_kmers(sequence, k) ==
    IF k <= 0 THEN Raised("ValueError")
    ELSE IF k > Len(sequence) THEN Raised("ValueError")
    ELSE Returned(CountKmersCall(KMerCounterNew(k), sequence).ctr)

\* a float that is the quotient of two integers
Quotient(num, den) == [num |-> num, den |-> den]

\* kmer_distance returning intersection / union, without the "1.0 -"
distance_value_Similarity(set1, set2) ==
    LET intersection == Cardinality(set1 \cap set2)
        union == Cardinality(set1 \cup set2)
    IN  IF union = 0 THEN Quotient(0, 1)
        ELSE Quotient(intersection, union)

\* the value kmer_distance computes from the two key sets
distance_value(set1, set2) ==
    LET intersection == Cardinality(set1 \cap set2)
        union == Cardinality(set1 \cup set2)
    IN  IF union = 0 THEN Quotient(0, 1)
        ELSE Quotient(union - intersection, union)

\* kmer_distance(seq1, seq2, k): what it returns or raises, and the two
\* counters it builds
kmer_distance(s1, s2, k) ==
    IF k <= 0 THEN [outcome |-> Raised("ValueError"), built |-> <<>>]
    ELSE IF k > Len(s1) \/ k > Len(s2)
    THEN [outcome |-> Raised("ValueError"), built |-> <<>>]
    ELSE LET counter1 == count_kmers(s1, k).value
             counter2 == count_kmers(s2, k).value
         IN  [outcome |-> Returned(distance_value(DOMAIN counter1.counts,
                                                  DOMAIN counter2.counts)),
              built |-> <<counter1, counter2>>]

\* the values of k handed to kmer_distance
DistanceKs == 0..MaxStrLen

\* distance = kmer_distance(seq1, seq2, k)
KmerDistance(k) ==
    LET r == kmer_distance(seq1, seq2, k)
    IN  /\ distance' = r.outcome
        /\ counters' = r.built
        /\ lastCall' = [op |-> "kmer_distance", raised |-> "error" \in DOMAIN r.outcome]
        /\ UNCHANGED <<alignVars, kmerObj, seqObj, targets, alignments,
                       bestResult, cigarVars>>

InitDistance ==
    /\ seq1 \in CountSequences
    /\ seq2 \in CountSequences
    /\ scoring = default_dna
    /\ pc = "idle"
    /\ H = NoMatrix
    /\ traceback = NoMatrix
    /\ i = 0
    /\ j = 0
    /\ max_score = 0
    /\ max_i = 0
    /\ max_j = 0
    /\ aligned1 = <<>>
    /\ aligned2 = <<>>
    /\ prev_row = <<>>
    /\ curr_row = <<>>
    /\ swResult = NoResult
    /\ nwResult = NoResult
    /\ soResult = NoResult
    /\ KMerIdle
    /\ ObjIdle

NextDistance == \E k \in DistanceKs : KmerDistance(k)

SpecDistance == InitDistance /\ [][NextDistance]_vars

----------------------------------------------------------------------------
(* Properties of kmer_distance *)

\* the k-mers of length k that bases has in a window without N
KmersOf(bases, k) == {Slice(bases, p, p + k) : p \in CleanWindows(bases, k)}

\* kmer_distance returned for a k within both sequences
DistanceReturned == "value" \in DOMAIN distance

\* the k of the call that returned
DistanceK == counters[1].k

IsOne(q) == q.num = q.den
IsZero(q) == q.num = 0

\* C18 as stated: for valid sequences s1, s2 and 0 < k <= min(len(s1),
\* len(s2)), if s1 and s2 share no counted k-mer of length k then
\* kmer_distance(s1, s2, k) == 1.0.
C18_DisjointIsOne ==
    DistanceReturned =>
        (KmersOf(seq1, DistanceK) \cap KmersOf(seq2, DistanceK) = {}
            => IsOne(distance.value))

\* C18 amended: if s1 and s2 share no counted k-mer of length k and at least
\* one of them has a counted k-mer (a window without N), kmer_distance is 1.0;
\* if neither has a counted k-mer it is 0.0.
C18_DisjointNonEmptyIsOne ==
    DistanceReturned =>
        LET set1 == KmersOf(seq1, DistanceK)
            set2 == KmersOf(seq2, DistanceK)
        IN  /\ (set1 \cap set2 = {} /\ set1 \cup set2 # {})
                  => IsOne(distance.value)
            /\ set1 \cup set2 = {} => IsZero(distance.value)

\* kmer_distance returned 1.0 for two sequences that both have counted k-mers
C18_Witness ==
    /\ DistanceReturned
    /\ IsOne(distance.value)
    /\ counters[1].total_kmers > 1
    /\ counters[2].total_kmers > 1

----------------------------------------------------------------------------
(* align_against_multiple and find_best_alignment *)

\* the query and the targets: the sequences of one or two symbols
BestSeqs == SeqsUpTo(AlignBases, 2)

\* the lists of targets, the empty one included
TargetLists == UNION {[1..len -> BestSeqs] : len \in 0..MaxTargets}

\* the scorings handed to find_best_alignment
BestScorings == {default_dna, blast_like}

\* the loop of align_against_multiple has targets left
TargetsLeft == Len(alignments) < Len(targets)

\* "alignment = smith_waterman(query, target, scoring)" begins
AlignTarget == TargetsLeft /\ SWCall

\* "results.append((i, alignment))", and the loop moves to the next target
AppendResult ==
    /\ pc = "idle"
    /\ swResult # NoResult
    /\ alignments' = Append(alignments, <<Len(alignments), swResult.value>>)
    /\ swResult' = NoResult
    /\ seq2' = IF Len(alignments') < Len(targets)
               THEN targets[Len(alignments') + 1] ELSE seq2
    /\ UNCHANGED <<seq1, scoring, pc, H, traceback, i, j, max_score, max_i,
                   max_j, aligned1, aligned2, prev_row, curr_row, nwResult,
                   soResult, kmerVars, kmerObj, seqObj, distance, targets,
                   bestResult, cigarVars>>

RECURSIVE PyMax_Last(_, _, _)
\* max keeping the last of the items with the largest key
PyMax_Last(items, idx, kept) ==
    IF idx > Len(items) THEN kept
    ELSE PyMax_Last(items, idx + 1,
                    IF items[idx][2].score >= kept[2].score
                    THEN items[idx] ELSE kept)

RECURSIVE PyMax(_, _, _)
\* max(alignments, key=lambda x: x[1].score) from item idx on: an item
\* replaces the one kept only when its key is larger
PyMax(items, idx, kept) ==
    IF idx > Len(items) THEN kept
    ELSE PyMax(items, idx + 1,
               IF items[idx][2].score > kept[2].score THEN items[idx] ELSE kept)

\* find_best_alignment returns, or align_against_multiple raised for an empty
\* list of targets
FindBest ==
    /\ pc = "idle"
    /\ swResult = NoResult
    /\ ~TargetsLeft
    /\ bestResult = NoResult
    /\ bestResult' = IF Len(targets) = 0 THEN Raised("ValueError")
                     ELSE Returned(PyMax(alignments, 2, alignments[1]))
    /\ UNCHANGED <<alignVars, kmerVars, kmerObj, seqObj, distance, targets,
                   alignments, cigarVars>>

InitBest ==
    /\ seq1 \in BestSeqs
    /\ targets \in TargetLists
    /\ seq2 = IF Len(targets) > 0 THEN targets[1] ELSE <<>>
    /\ scoring \in BestScorings
    /\ alignments = <<>>
    /\ bestResult = NoResult
    /\ CigarIdle
    /\ pc = "idle"
    /\ H = NoMatrix
    /\ traceback = NoMatrix
    /\ i = 0
    /\ j = 0
    /\ max_score = 0
    /\ max_i = 0
    /\ max_j = 0
    /\ aligned1 = <<>>
    /\ aligned2 = <<>>
    /\ prev_row = <<>>
    /\ curr_row = <<>>
    /\ swResult = NoResult
    /\ nwResult = NoResult
    /\ soResult = NoResult
    /\ kmerObj = NoResult
    /\ seqObj = NoResult
    /\ distance = NoResult
    /\ KMerIdle

NextBest ==
    \/ AlignTarget
    \/ SWFill
    \/ SWTrace
    \/ SWReturn
    \/ AppendResult
    \/ FindBest

SpecBest == InitBest /\ [][NextBest]_vars

----------------------------------------------------------------------------
(* Properties of find_best_alignment *)

BestReturned == "value" \in DOMAIN bestResult

\* C19: on a non-empty list of targets find_best_alignment returns the pair
\* (i, alignment) where alignment is smith_waterman(query, targets[i]), its
\* score is the maximum over all targets, and i is the smallest index
\* attaining that maximum.
C19_FirstBest ==
    /\ TargetsLeft => seq2 = targets[Len(alignments) + 1]
    /\ \A t \in 1..Len(alignments) :
          /\ alignments[t][1] = t - 1
          /\ Degap(alignments[t][2].aligned_seq2)
                = Slice(targets[t], alignments[t][2].start2,
                        alignments[t][2].end2)
    /\ (Len(targets) > 0 /\ bestResult # NoResult) =>
          /\ BestReturned
          /\ LET idx == bestResult.value[1]
                 alignment == bestResult.value[2]
             IN  /\ idx \in 0..(Len(targets) - 1)
                 /\ alignment = alignments[idx + 1][2]
                 /\ \A t \in 1..Len(alignments) :
                       alignments[t][2].score <= alignment.score
                 /\ \A t \in 1..idx :
                       alignments[t][2].score < alignment.score

\* the best alignment is not the first one, and a later target scores the same
C19_Witness ==
    /\ BestReturned
    /\ bestResult.value[1] > 0
    /\ \E t \in 1..Len(alignments) :
          /\ t - 1 > bestResult.value[1]
          /\ alignments[t][2].score = bestResult.value[2].score

----------------------------------------------------------------------------
(* Construction of a ScoringMatrix *)

\* __post_init__ accepting a match score of zero
ScoringInit_ZeroMatch(s) ==
    IF s.match_score < 0 THEN Raised("ValueError")
    ELSE IF s.mismatch_penalty > 0 THEN Raised("ValueError")
    ELSE IF s.gap_open_penalty > 0 THEN Raised("ValueError")
    ELSE IF s.gap_extend_penalty > 0 THEN Raised("ValueError")
    ELSE Returned(s)

\* ScoringMatrix(...) with the fields of s: __post_init__ raises or the
\* object exists
ScoringInit(s) ==
    IF s.match_score <= 0 THEN Raised("ValueError")
    ELSE IF s.mismatch_penalty > 0 THEN Raised("ValueError")
    ELSE IF s.gap_open_penalty > 0 THEN Raised("ValueError")
    ELSE IF s.gap_extend_penalty > 0 THEN Raised("ValueError")
    ELSE Returned(s)

\* the integers handed to the constructor and to simple
ScoreValues == -2..2

\* scoring = ..., when the construction returns; a construction that raises
\* binds nothing
Constructed(op, r) ==
    /\ scoring' = IF "value" \in DOMAIN r THEN r.value ELSE scoring
    /\ lastCall' = [op |-> op, raised |-> "error" \in DOMAIN r]
    /\ UNCHANGED <<seq1, seq2, pc, H, traceback, i, j, max_score, max_i, max_j,
                   aligned1, aligned2, prev_row, curr_row, swResult, nwResult,
                   soResult, counters, objVars>>

NewScoring(mt, mm, go, ge) ==
    /\ Constructed("ScoringMatrix", ScoringInit(ScoringRec(mt, mm, go, ge)))
SimpleScoring(match, mismatch, gap) ==
    /\ Constructed("simple", ScoringInit(simple(match, mismatch, gap)))
DefaultDnaScoring ==
    /\ Constructed("default_dna", ScoringInit(default_dna))
BlastLikeScoring ==
    /\ Constructed("blast_like", ScoringInit(blast_like))

InitScoring ==
    /\ AlignIdle
    /\ KMerIdle
    /\ ObjIdle

NextScoring ==
    \/ \E mt \in ScoreValues, mm \in ScoreValues, go \in ScoreValues,
          ge \in ScoreValues : NewScoring(mt, mm, go, ge)
    \/ \E match \in ScoreValues, mismatch \in ScoreValues, gap \in ScoreValues :
          SimpleScoring(match, mismatch, gap)
    \/ DefaultDnaScoring
    \/ BlastLikeScoring

SpecScoring == InitScoring /\ [][NextScoring]_vars

----------------------------------------------------------------------------
(* Properties of the construction of a ScoringMatrix *)

\* C20: constructing a ScoringMatrix, directly or through simple, default_dna
\* or blast_like, fails exactly when match_score <= 0 or mismatch_penalty > 0
\* or gap_open_penalty > 0 or gap_extend_penalty > 0; every ScoringMatrix that
\* exists after construction satisfies the four sign constraints.
C20_ScoringConstruction ==
    /\ \A mt \in ScoreValues, mm \in ScoreValues, go \in ScoreValues,
          ge \in ScoreValues :
          Failed(ScoringInit(ScoringRec(mt, mm, go, ge)))
             <=> (mt <= 0 \/ mm > 0 \/ go > 0 \/ ge > 0)
    /\ \A match \in ScoreValues, mismatch \in ScoreValues, gap \in ScoreValues :
          Failed(ScoringInit(simple(match, mismatch, gap)))
             <=> (match <= 0 \/ mismatch > 0 \/ gap > 0)
    /\ ~Failed(ScoringInit(default_dna))
    /\ ~Failed(ScoringInit(blast_like))
    /\ scoring.match_score > 0
    /\ scoring.mismatch_penalty <= 0
    /\ scoring.gap_open_penalty <= 0
    /\ scoring.gap_extend_penalty <= 0

\* simple returned the matrix with every field at the edge of its constraint
C20_Witness ==
    /\ lastCall = [op |-> "simple", raised |-> FALSE]
    /\ scoring = ScoringRec(1, 0, 0, 0)

----------------------------------------------------------------------------
(* Alignment.to_cigar *)

\* longest alignment whose columns are drawn freely
MaxCols == 3

\* longest run of equal columns in the alignments made of two runs
MaxRun == 11

\* the symbols of the rows
CigarSymbols == {"A", "C", "-"}

\* the kinds of column the runs are made of: match, mismatch, gap in row 1,
\* gap in row 2, gap in both
RunColumns == {<<"A", "A">>, <<"A", "C">>, <<"-", "A">>, <<"A", "-">>,
               <<"-", "-">>}

\* the operation of the column (a, b)
ColumnOp(a, b) ==
    IF a = "-" THEN "I"
    ELSE IF b = "-" THEN "D"
    ELSE IF a = b THEN "M"
    ELSE "X"

DigitChars == <<"0", "1", "2", "3", "4", "5", "6", "7", "8", "9">>

RECURSIVE Decimal(_)
\* str(count) for count >= 0: the decimal digits, most significant first
Decimal(count) ==
    IF count < 10 THEN <<DigitChars[count + 1]>>
    ELSE Decimal(count \div 10) \o <<DigitChars[(count % 10) + 1]>>

\* f"{count}{current_op}"
Token(count, current_op) == Decimal(count) \o <<current_op>>

\* zip(aligned_seq1, aligned_seq2)
Zip(a1, a2) ==
    [x \in 1..(IF Len(a1) < Len(a2) THEN Len(a1) ELSE Len(a2)) |-> <<a1[x], a2[x]>>]

RECURSIVE CigarLoop_NoFlush(_, _, _, _, _)
\* the loop without the "if count > 0" after it: the last run is never written
CigarLoop_NoFlush(cols, idx, cg, current_op, count) ==
    IF idx > Len(cols) THEN cg
    ELSE LET op == ColumnOp(cols[idx][1], cols[idx][2])
         IN  IF op = current_op
             THEN CigarLoop_NoFlush(cols, idx + 1, cg, current_op, count + 1)
             ELSE CigarLoop_NoFlush(cols, idx + 1,
                                    IF count > 0
                                    THEN cg \o Token(count, current_op) ELSE cg,
                                    op, 1)

RECURSIVE CigarLoop(_, _, _, _, _)
\* the loop of to_cigar from column idx on, and the "if count > 0" after it
CigarLoop(cols, idx, cg, current_op, count) ==
    IF idx > Len(cols)
    THEN IF count > 0 THEN cg \o Token(count, current_op) ELSE cg
    ELSE LET op == ColumnOp(cols[idx][1], cols[idx][2])
         IN  IF op = current_op
             THEN CigarLoop(cols, idx + 1, cg, current_op, count + 1)
             ELSE CigarLoop(cols, idx + 1,
                            IF count > 0
                            THEN cg \o Token(count, current_op) ELSE cg,
                            op, 1)

\* self.to_cigar()
to_cigar(self) ==
    IF Len(self.aligned_seq1) = 0 THEN <<>>
    ELSE CigarLoop(Zip(self.aligned_seq1, self.aligned_seq2), 1, <<>>, "", 0)

\* count copies of one column
Run(col, count) == [x \in 1..count |-> col]

Row(cols, r) == [x \in 1..Len(cols) |-> cols[x][r]]

\* the rows of the alignments to_cigar is called on: every pair of rows of
\* equal length up to MaxCols, and every two runs of up to MaxRun columns
CigarColumns ==
    {<<>>}
    \cup SeqsUpTo(CigarSymbols \X CigarSymbols, MaxCols)
    \cup {Run(c1, r1) \o Run(c2, r2) :
             c1 \in RunColumns, c2 \in RunColumns, r1 \in 0..MaxRun,
             r2 \in 0..MaxRun}

\* cigar = alignObj.to_cigar()
ToCigar ==
    /\ cigar = NoResult
    /\ cigar' = Returned(to_cigar(alignObj.value))
    /\ lastCall' = [op |-> "to_cigar", raised |-> FALSE]
    /\ UNCHANGED <<alignVars, counters, kmerObj, seqObj, distance, targets,
                   alignments, bestResult, alignObj>>

InitCigar ==
    /\ alignObj \in {Returned(AlignmentNew(Row(cols, 1), Row(cols, 2), 0, "GLOBAL")) :
                        cols \in CigarColumns}
    /\ cigar = NoResult
    /\ kmerObj = NoResult
    /\ seqObj = NoResult
    /\ distance = NoResult
    /\ targets = <<>>
    /\ alignments = <<>>
    /\ bestResult = NoResult
    /\ KMerIdle
    /\ AlignIdle

NextCigar ==
    \/ ToCigar

SpecCigar == InitCigar /\ [][NextCigar]_vars

----------------------------------------------------------------------------
(* Properties of to_cigar *)

IsDigit(c) == \E d \in 1..10 : DigitChars[d] = c

DigitValue(c) == (CHOOSE d \in 1..10 : DigitChars[d] = c) - 1

RECURSIVE ParseCigar(_, _)
\* the tokens of a CIGAR string, each a run length and an operation; acc is the
\* value of the digits read since the last operation
ParseCigar(s, acc) ==
    IF s = <<>> THEN <<>>
    ELSE IF IsDigit(Head(s))
         THEN ParseCigar(Tail(s), 10 * acc + DigitValue(Head(s)))
         ELSE <<[count |-> acc, op |-> Head(s)]>> \o ParseCigar(Tail(s), 0)

RECURSIVE Expand(_)
\* the tokens written out, one operation per column
Expand(tokens) ==
    IF tokens = <<>> THEN <<>>
    ELSE Run(Head(tokens).op, Head(tokens).count) \o Expand(Tail(tokens))

RECURSIVE SumOfRuns(_)
SumOfRuns(tokens) ==
    IF tokens = <<>> THEN 0 ELSE Head(tokens).count + SumOfRuns(Tail(tokens))

\* the per-column operations of an Alignment
ColumnOps(self) ==
    [x \in 1..Len(self.aligned_seq1) |->
        IF self.aligned_seq1[x] = "-" THEN "I"
        ELSE IF self.aligned_seq2[x] = "-" THEN "D"
        ELSE IF self.aligned_seq1[x] = self.aligned_seq2[x] THEN "M"
        ELSE "X"]

CigarReturned == "value" \in DOMAIN cigar

\* C21: to_cigar is a run-length encoding of the per-column operation (I when
\* the row-1 symbol is a gap, else D when the row-2 symbol is a gap, else M
\* when the symbols are equal, else X): the string is a concatenation of
\* <run length><operation> tokens, expanding the tokens in order reproduces
\* the column operations, every run length is >= 1, adjacent tokens have
\* different operations and the run lengths sum to the alignment length.
C21_CigarRunLength ==
    CigarReturned =>
        LET s == cigar.value
            tokens == ParseCigar(s, 0)
        IN  /\ s # <<>> => ~IsDigit(s[Len(s)])
            /\ \A x \in 1..Len(s) :
                  ~IsDigit(s[x]) => (x > 1 /\ IsDigit(s[x - 1]))
            /\ Expand(tokens) = ColumnOps(alignObj.value)
            /\ \A t \in 1..Len(tokens) :
                  /\ tokens[t].count >= 1
                  /\ tokens[t].op \in {"M", "I", "D", "X"}
            /\ \A t \in 1..(Len(tokens) - 1) : tokens[t].op # tokens[t + 1].op
            /\ SumOfRuns(tokens) = Len(alignObj.value.aligned_seq1)

\* to_cigar returned two tokens, one of them with a run length of two digits
\* and one of them for a column with a gap in both rows
C21_Witness ==
    /\ CigarReturned
    /\ LET tokens == ParseCigar(cigar.value, 0)
       IN  /\ Len(tokens) = 2
           /\ tokens[1].count >= 10
           /\ tokens[2].op = "I"
    /\ \E x \in 1..Len(alignObj.value.aligned_seq1) :
          /\ alignObj.value.aligned_seq1[x] = "-"
          /\ alignObj.value.aligned_seq2[x] = "-"

----------------------------------------------------------------------------
(* Properties of the fill loops *)

\* the fill loop has assigned cell (a, b)
Filled(a, b) ==
    /\ a \in 1..m
    /\ b \in 1..n
    /\ \/ pc \in {"sw_trace", "nw_trace"}
       \/ pc \in {"sw_fill", "nw_fill"} /\ (a < i \/ (a = i /\ b < j))

\* the candidates of cell (a, b), from the cells filled before it
Candidates(a, b) ==
    [DIAGONAL |-> H[a - 1][b - 1] + score(scoring, seq1[a], seq2[b]),
     UP |-> H[a - 1][b] + gap_penalty(scoring),
     LEFT |-> H[a][b - 1] + gap_penalty(scoring),
     STOP |-> 0]

\* the first direction of order whose candidate equals best
FirstEqual(order, cand, best) ==
    order[CHOOSE x \in 1..Len(order) :
             /\ cand[order[x]] = best
             /\ \A y \in 1..(x - 1) : cand[order[y]] # best]

SWFilling == pc \in {"sw_fill", "sw_trace"}
NWFilling == pc \in {"nw_fill", "nw_trace"}

\* C22 as stated: in the smith_waterman fill every cell (i, j) with i, j >= 1
\* has H[i][j] = max(0, diag, up, left), the recorded direction is the first of
\* DIAGONAL, UP, LEFT, STOP whose candidate equals that maximum, and STOP is
\* recorded only when diag, up and left are all below 0.
C22_LocalFill ==
    SWFilling =>
        \A a \in 1..m, b \in 1..n :
            Filled(a, b) =>
                LET cand == Candidates(a, b)
                    best == SetMax({0, cand.DIAGONAL, cand.UP, cand.LEFT})
                IN  /\ H[a][b] = best
                    /\ traceback[a][b] =
                          FirstEqual(<<"DIAGONAL", "UP", "LEFT", "STOP">>, cand, best)
                    /\ traceback[a][b] = "STOP" =>
                          (cand.DIAGONAL < 0 /\ cand.UP < 0 /\ cand.LEFT < 0)

\* C22, amended: in the smith_waterman fill every cell (i, j) with i, j >= 1
\* has H[i][j] = max(0, diag, up, left); the recorded direction is STOP when
\* that maximum is 0, which is exactly when diag, up and left are all <= 0,
\* and otherwise the first of DIAGONAL, UP, LEFT whose candidate equals the
\* maximum.
C22_LocalFillFloorFirst ==
    SWFilling =>
        \A a \in 1..m, b \in 1..n :
            Filled(a, b) =>
                LET cand == Candidates(a, b)
                    best == SetMax({0, cand.DIAGONAL, cand.UP, cand.LEFT})
                IN  /\ H[a][b] = best
                    /\ traceback[a][b] =
                          FirstEqual(<<"STOP", "DIAGONAL", "UP", "LEFT">>, cand, best)
                    /\ traceback[a][b] = "STOP" <=>
                          (cand.DIAGONAL <= 0 /\ cand.UP <= 0 /\ cand.LEFT <= 0)
                    /\ traceback[a][b] = "STOP" <=> best = 0

\* the fill is over: one cell recorded STOP with diag = 0, one recorded
\* DIAGONAL on a tie with up above 0, one recorded UP on a tie with left
C22_Witness ==
    /\ pc = "sw_trace"
    /\ \E a \in 1..m, b \in 1..n :
          traceback[a][b] = "STOP" /\ Candidates(a, b).DIAGONAL = 0
    /\ \E a \in 1..m, b \in 1..n :
          /\ traceback[a][b] = "DIAGONAL"
          /\ Candidates(a, b).DIAGONAL = Candidates(a, b).UP
    /\ \E a \in 1..m, b \in 1..n :
          /\ traceback[a][b] = "UP"
          /\ Candidates(a, b).UP = Candidates(a, b).LEFT

\* C23: in the needleman_wunsch fill H[i][0] = i * gap and H[0][j] = j * gap,
\* every interior cell is H[i][j] = max(diag, up, left) with no zero floor, the
\* recorded direction is the first of DIAGONAL, UP, LEFT whose candidate equals
\* that maximum, and the returned score equals H[m][n].
C23_GlobalFill ==
    /\ [](NWFilling =>
            /\ \A a \in 0..m : H[a][0] = a * gap_penalty(scoring)
            /\ \A b \in 0..n : H[0][b] = b * gap_penalty(scoring)
            /\ \A a \in 1..m, b \in 1..n :
                  Filled(a, b) =>
                      LET cand == Candidates(a, b)
                          best == SetMax({cand.DIAGONAL, cand.UP, cand.LEFT})
                      IN  /\ H[a][b] = best
                          /\ traceback[a][b] =
                                FirstEqual(<<"DIAGONAL", "UP", "LEFT">>, cand, best))
    /\ [][(pc = "nw_trace" /\ pc' = "idle") =>
            nwResult'.value.score = H[m][n]]_vars

\* needleman_wunsch returned a score below 0, for rows with a gap column and
\* a mismatch column
C23_Witness ==
    /\ NWReturned
    /\ nwResult.value.score < 0
    /\ HasGap(nwResult.value.aligned_seq1)
    /\ LET a1 == nwResult.value.aligned_seq1
           a2 == nwResult.value.aligned_seq2
       IN  \E c \in 1..Len(a1) : a1[c] # "-" /\ a2[c] # "-" /\ a1[c] # a2[c]

\* cell (a, b) is filled before cell (c, d)
FilledBefore(a, b, c, d) == a < c \/ (a = c /\ b < d)

\* the maximum of H over the cells the fill assigns
TopCell == SetMax({H[a][b] : a \in 1..m, b \in 1..n})

\* C24: in smith_waterman the traceback start cell (maxI, maxJ) is the first
\* cell in row-major fill order whose value equals the maximum of H; it stays
\* (0, 0) when no cell is strictly positive, and then the returned alignment is
\* empty with score 0.
C24_TracebackStart ==
    /\ [](pc = "sw_trace" =>
            IF TopCell > 0
            THEN /\ max_i \in 1..m
                 /\ max_j \in 1..n
                 /\ H[max_i][max_j] = TopCell
                 /\ \A a \in 1..m, b \in 1..n :
                       FilledBefore(a, b, max_i, max_j) => H[a][b] < TopCell
            ELSE max_i = 0 /\ max_j = 0)
    /\ [][(pc = "sw_fill" /\ pc' = "sw_trace") =>
            (i' = max_i' /\ j' = max_j')]_vars
    /\ [][(pc = "sw_trace" /\ pc' = "idle" /\ TopCell <= 0) =>
            /\ swResult'.value.aligned_seq1 = <<>>
            /\ swResult'.value.aligned_seq2 = <<>>
            /\ swResult'.value.score = 0]_vars

\* the traceback starts at a cell that a cell filled later equals
C24_Witness ==
    /\ pc = "sw_trace"
    /\ i = max_i
    /\ j = max_j
    /\ TopCell > 0
    /\ \E a \in 1..m, b \in 1..n :
          FilledBefore(max_i, max_j, a, b) /\ H[a][b] = TopCell

----------------------------------------------------------------------------
(* smith_waterman called on one pair of sequences and run to its return *)

NextLocal ==
    \/ SWCall
    \/ SWFill
    \/ SWTrace
    \/ SWReturn

\* a function body that has started keeps running: its next step is taken
SpecLocal ==
    InitAlign /\ [][NextLocal]_vars /\ WF_vars(SWFill \/ SWTrace \/ SWReturn)

\* C25: the smith_waterman traceback starting at (maxI, maxJ) always
\* terminates, stopping at the first STOP cell or when i = 0 or j = 0, and ends
\* at (start1, start2) with 0 <= start1 <= maxI <= len(seq1) and
\* 0 <= start2 <= maxJ <= len(seq2); aligned1 with the gaps removed is
\* seq1.bases[start1:maxI], aligned2 with the gaps removed is
\* seq2.bases[start2:maxJ], and the returned end1, end2 are maxI, maxJ.
C25_LocalTraceback ==
    /\ (pc = "sw_trace") ~> (pc = "idle" /\ SWReturned)
    /\ [][(pc = "sw_trace" /\ pc' = "sw_trace") =>
            /\ i > 0 /\ j > 0 /\ traceback[i][j] # "STOP"
            /\ i' >= 0 /\ j' >= 0 /\ i' + j' < i + j]_vars
    /\ [][(pc = "sw_trace" /\ pc' = "idle") =>
            /\ i = 0 \/ j = 0 \/ traceback[i][j] = "STOP"
            /\ swResult'.value.start1 = i
            /\ swResult'.value.start2 = j
            /\ swResult'.value.end1 = max_i
            /\ swResult'.value.end2 = max_j]_vars
    /\ [](SWReturned =>
            LET r == swResult.value
            IN  /\ 0 <= r.start1 /\ r.start1 <= r.end1 /\ r.end1 <= Len(seq1)
                /\ 0 <= r.start2 /\ r.start2 <= r.end2 /\ r.end2 <= Len(seq2)
                /\ Degap(r.aligned_seq1) = Slice(seq1, r.start1, r.end1)
                /\ Degap(r.aligned_seq2) = Slice(seq2, r.start2, r.end2))

\* smith_waterman returned an alignment of two columns that starts inside both
\* sequences: the traceback stopped at a STOP cell away from the borders
C25_Witness ==
    /\ SWReturned
    /\ swResult.value.start1 > 0
    /\ swResult.value.start2 > 0
    /\ Len(swResult.value.aligned_seq1) = 2

----------------------------------------------------------------------------
(* Properties of the returned alignments *)

RECURSIVE RowsScore(_, _)
\* the summed column scores of two aligned rows
RowsScore(a1, a2) ==
    IF a1 = <<>> \/ a2 = <<>> THEN 0
    ELSE ColumnScore(Head(a1), Head(a2)) + RowsScore(Tail(a1), Tail(a2))

HasMismatch(a1, a2) ==
    \E c \in 1..Len(a1) : a1[c] # "-" /\ a2[c] # "-" /\ a1[c] # a2[c]

\* C26: for every Alignment returned by smith_waterman or needleman_wunsch the
\* reported score equals the score recomputed from the returned rows: the sum
\* over the columns of match_score for equal symbols, mismatch_penalty for two
\* different symbols and gap_open_penalty for a column with a gap.
C26_ScoreOfRows ==
    /\ SWReturned =>
          swResult.value.score =
             RowsScore(swResult.value.aligned_seq1, swResult.value.aligned_seq2)
    /\ NWReturned =>
          nwResult.value.score =
             RowsScore(nwResult.value.aligned_seq1, nwResult.value.aligned_seq2)

\* both returned under a scoring that penalises gaps, both with a gap in
\* their rows
C26_Witness ==
    /\ SWReturned
    /\ NWReturned
    /\ scoring.gap_open_penalty < 0
    /\ HasGap(swResult.value.aligned_seq1) \/ HasGap(swResult.value.aligned_seq2)
    /\ HasGap(nwResult.value.aligned_seq1) \/ HasGap(nwResult.value.aligned_seq2)

\* column c of the rows pairs two equal symbols
IsMatchColumn(a1, a2, c) == a1[c] = a2[c] /\ a1[c] # "-"

\* C27: every alignment returned by smith_waterman with score > 0 is non-empty
\* and both its first and its last column are exact matches, so it never
\* starts or ends with a gap or a mismatch; the returned alignment is empty
\* exactly when the score is 0.
C27_LocalEndsMatch ==
    SWReturned =>
        LET a1 == swResult.value.aligned_seq1
            a2 == swResult.value.aligned_seq2
        IN  /\ swResult.value.score > 0 =>
                  /\ Len(a1) > 0
                  /\ IsMatchColumn(a1, a2, 1)
                  /\ IsMatchColumn(a1, a2, Len(a1))
            /\ (Len(a1) = 0) <=> (swResult.value.score = 0)

\* smith_waterman returned three columns with a score above 0, the middle
\* one a gap in row 2
C27_Witness ==
    /\ SWReturned
    /\ swResult.value.score > 0
    /\ Len(swResult.value.aligned_seq1) = 3
    /\ swResult.value.aligned_seq2[2] = "-"

\* the rows have no column with a gap in both, and the three counts add up to
\* the length
CountsAddUp(a1, a2) ==
    /\ \A c \in 1..Len(a1) : ~(a1[c] = "-" /\ a2[c] = "-")
    /\ match_count(a1, a2) + mismatch_count(a1, a2) + total_gaps(a1, a2)
          = alignment_length(a1, a2)

\* C28: no alignment returned by smith_waterman or needleman_wunsch contains a
\* column where both rows hold the gap symbol, hence match_count() +
\* mismatch_count() + total_gaps() == alignment_length() for every result.
C28_NoDoubleGap ==
    /\ SWReturned =>
          CountsAddUp(swResult.value.aligned_seq1, swResult.value.aligned_seq2)
    /\ NWReturned =>
          CountsAddUp(nwResult.value.aligned_seq1, nwResult.value.aligned_seq2)

\* both returned: the global rows hold a match, a mismatch and a gap
C28_Witness ==
    /\ SWReturned
    /\ NWReturned
    /\ HasGap(nwResult.value.aligned_seq1)
    /\ HasMismatch(nwResult.value.aligned_seq1, nwResult.value.aligned_seq2)
    /\ match_count(nwResult.value.aligned_seq1, nwResult.value.aligned_seq2) > 0

----------------------------------------------------------------------------
(* count_kmers_canonical *)

RECURSIVE CanonicalLoop_Forward(_, _, _)
\* the loop adding the window itself instead of its canonical form
CanonicalLoop_Forward(counter, bases, idx) ==
    IF idx \notin 0..(Len(bases) - counter.k) THEN Outcome(FALSE, counter)
    ELSE LET kmer_str == Slice(bases, idx, idx + counter.k)
         IN  IF HasNoN(kmer_str)
             THEN LET r == AddCall(counter, kmer_str, 1)
                  IN  IF r.raised THEN r
                      ELSE CanonicalLoop_Forward(r.ctr, bases, idx + 1)
             ELSE CanonicalLoop_Forward(counter, bases, idx + 1)

RECURSIVE CanonicalLoop(_, _, _)
\* the loop of count_kmers_canonical from window idx on
CanonicalLoop(counter, bases, idx) ==
    IF idx \notin 0..(Len(bases) - counter.k) THEN Outcome(FALSE, counter)
    ELSE LET kmer_str == Slice(bases, idx, idx + counter.k)
         IN  IF HasNoN(kmer_str)
             THEN LET kmer == KMerInit(kmer_str).value
                      canonical == KMerCanonical(kmer)
                      r == AddCall(counter, canonical.sequence, 1)
                  IN  IF r.raised THEN r ELSE CanonicalLoop(r.ctr, bases, idx + 1)
             ELSE CanonicalLoop(counter, bases, idx + 1)

\* count_kmers_canonical(sequence, k)
count_kmers_canonical(sequence, k) ==
    IF k <= 0 THEN Raised("ValueError")
    ELSE IF k > Len(sequence) THEN Raised("ValueError")
    ELSE LET r == CanonicalLoop(KMerCounterNew(k), sequence, 0)
         IN  IF r.raised THEN Raised("ValueError") ELSE Returned(r.ctr)

\* the valid Sequence objects the functions are called on, DNA and RNA
ValidSequences ==
    {r.value : r \in {x \in {with_metadata(text, "seq1", None, kind) :
                                text \in SeqsUpTo(VALID_DNA_BASES \cup VALID_RNA_BASES,
                                                  MaxStrLen),
                                kind \in SeqKinds} : "value" \in DOMAIN x}}

\* the values of k handed to the functions
CanonicalKs == 0..MaxStrLen

\* counter = op(sequence, k) ends: the outcome is bound to the caller's
\* variable, under the name of the function that built it
Counted(op, r) ==
    /\ counters' = DictPut(EmptyDict, op, r)
    /\ lastCall' = [op |-> op, raised |-> "error" \in DOMAIN r]
    /\ UNCHANGED <<alignVars, objVars>>

\* counter = count_kmers(seqObj, k)
CountPlain(k) ==
    /\ HasSequence
    /\ Counted("count_kmers", count_kmers(seqObj.value.bases, k))

\* counter = count_kmers_canonical(seqObj, k)
CountCanonical(k) ==
    /\ HasSequence
    /\ Counted("count_kmers_canonical",
               count_kmers_canonical(seqObj.value.bases, k))

\* seqObj = seqObj.reverse_complement(): the other strand
OtherStrand ==
    /\ ReverseComplement

InitCanonical ==
    /\ seqObj \in {Returned(s) : s \in ValidSequences}
    /\ kmerObj = NoResult
    /\ distance = NoResult
    /\ targets = <<>>
    /\ alignments = <<>>
    /\ bestResult = NoResult
    /\ CigarIdle
    /\ KMerIdle
    /\ AlignIdle

NextCanonical ==
    \/ \E k \in CanonicalKs : CountPlain(k)
    \/ \E k \in CanonicalKs : CountCanonical(k)
    \/ OtherStrand

SpecCanonical == InitCanonical /\ [][NextCanonical]_vars

----------------------------------------------------------------------------
(* Properties of count_kmers_canonical *)

\* the caller holds a counter that function op returned
CounterOf(op) ==
    /\ op \in DOMAIN counters
    /\ "value" \in DOMAIN counters[op]

\* the reverse complement of a k-mer given as a string
RcOf(x) == KMerReverseComplement(KMerInit(x).value).sequence

\* C29: canonical counting is strand-symmetric: for every valid DNA sequence s
\* and 0 < k <= len(s), count_kmers_canonical(s, k) and
\* count_kmers_canonical(s.reverse_complement(), k) have the same total and the
\* same count for every key, and the canonical count of a key x equals the
\* plain count of x plus the plain count of reverse_complement(x) when these
\* differ.  The counter the caller holds was built from this sequence or, after
\* reverse_complement, from its other strand.
C29_StrandSymmetric ==
    (HasSequence /\ seqObj.value.seq_type = "DNA"
        /\ CounterOf("count_kmers_canonical")) =>
        LET stored == counters["count_kmers_canonical"].value
            s == seqObj.value
            here == count_kmers_canonical(s.bases, stored.k)
            there == count_kmers_canonical(reverse_complement(s).value.bases,
                                           stored.k)
            plain == count_kmers(s.bases, stored.k).value
        IN  /\ "value" \in DOMAIN here
            /\ "value" \in DOMAIN there
            /\ SameCounts(stored, here.value)
            /\ SameCounts(here.value, there.value)
            /\ \A x \in DOMAIN stored.counts :
                  x # RcOf(x) =>
                     stored.counts[x] = DictGet(plain.counts, x, 0)
                                        + DictGet(plain.counts, RcOf(x), 0)

\* the caller holds the canonical counts of the other strand of seqObj, which
\* differs from seqObj; one key merges a k-mer with its reverse complement
C29_Witness ==
    /\ lastCall = [op |-> "reverse_complement", raised |-> FALSE]
    /\ CounterOf("count_kmers_canonical")
    /\ seqObj.value.bases # reverse_complement(seqObj.value).value.bases
    /\ LET stored == counters["count_kmers_canonical"].value
           plain == count_kmers(seqObj.value.bases, stored.k).value
       IN  \E x \in DOMAIN stored.counts :
              /\ x # RcOf(x)
              /\ x \in DOMAIN plain.counts
              /\ RcOf(x) \in DOMAIN plain.counts

\* C30: for every valid Sequence (DNA or RNA) and 0 < k <= len, every key
\* stored by count_kmers and by count_kmers_canonical consists only of symbols
\* of the sequence's own alphabet and contains no N.
C30_KeysInAlphabet ==
    HasSequence =>
        \A op \in {"count_kmers", "count_kmers_canonical"} :
            CounterOf(op) =>
                \A key \in DOMAIN counters[op].value.counts :
                    \A x \in 1..Len(key) :
                        /\ key[x] \in Alphabet(seqObj.value.seq_type)
                        /\ key[x] # "N"

====
